---- MODULE Spec2Model ----
(***************************************************************************)
(* rios0rios0/testkit: the builder framework (BaseBuilder, UserBuilder).   *)
(*                                                                         *)
(* Go values that are pointers (the *BaseBuilder embedded in a UserBuilder,*)
(* the *TestUser under construction, every map) are modelled as addresses  *)
(* into a heap, so that "independent copy" is a statement about addresses  *)
(* and contents that a wrong Clone or Build can violate.  Strings are TLA+ *)
(* strings, "" is the empty string.  An error value is modelled by its     *)
(* text, a sequence of words; the nil error is the empty sequence.         *)
(***************************************************************************)
EXTENDS Integers, Sequences, FiniteSets, TLC

VARIABLES
    st,        \* the heap and the caller's variables (see NewState)
    last,      \* history: the last value passed to each setter of a chain
    rejected,  \* history: a validating setter has rejected an input
    done       \* history: the last call made (see Done)

vars == <<st, last, rejected, done>>

\* The longest error list the model lets a builder accumulate.
MaxErrors == 2

NIL == "nil"

\* The last call, when it is one a property speaks of: its method, the
\* variable it was made on, and whether its receiver was set up when it was
\* made (a builder that had tags, errors, validation disabled and a name; a
\* factory in which the name was registered), or, for ApplyTo, whether the
\* builder was still as NewUserBuilder left it or had validation enabled.
Done(op, on, configured) == [op |-> op, on |-> on, configured |-> configured]
NoCall == Done("none", NIL, FALSE)

\* The caller's builder variables: `orig` is built by NewUserBuilder, `clone`
\* receives the result of Clone.
Roles == {"orig", "clone"}

---------------------------------------------------------------------------
(* Heap addresses.  Every allocation site has a home address, taken when it *)
(* is free, so that equal object graphs are equal states; the spare         *)
(* addresses are used only when a home is still referenced elsewhere.       *)

BaseAddrs == Roles \cup {"b1", "b2"}
EntityAddrs == {"e1", "e2", "e3"}
UserAddrs == Roles \cup EntityAddrs \cup {"u1", "u2"}

TagsHome(a) == a \o ".tags"
UTagsHome(u) == u \o ".Tags"
MetaHome(u) == u \o ".Metadata"

MapAddrs ==
    {TagsHome(a) : a \in BaseAddrs}
        \cup {UTagsHome(u) : u \in UserAddrs}
        \cup {MetaHome(u) : u \in UserAddrs}
        \cup {"m1", "m2", "m3", "m4"}

Fresh(pref, used, pool) ==
    IF pref \notin used THEN pref ELSE CHOOSE a \in pool : a \notin used

\* f with key k bound to v (a Go map assignment m[k] = v, a heap write).
Put(f, k, v) == [x \in DOMAIN f \cup {k} |-> IF x = k THEN v ELSE f[x]]

Restrict(f, S) == [x \in DOMAIN f \cap S |-> f[x]]

EmptyMap == <<>>

---------------------------------------------------------------------------
(* Return values.  ret holds what the last call returned: a *UserBuilder    *)
(* (ref is the caller's variable naming it), a *BaseBuilder (ref is its     *)
(* address), a *TestUser (ref is its address), an error (msg is its text),  *)
(* or an untyped nil.                                                       *)

Ret(kind, ref, msg) == [kind |-> kind, ref |-> ref, msg |-> msg]
NoRet == Ret("none", NIL, <<>>)
Return(s, r) == [s EXCEPT !.ret = r]

UserBuilderRef(r) == Ret("UserBuilder", r, <<>>)
BaseBuilderRef(a) == Ret("BaseBuilder", a, <<>>)
TestUserRef(u) == Ret("TestUser", u, <<>>)
ErrorValue(msg) == Ret("error", NIL, msg)
\* The call did not return: it panicked with a run-time error.
Panic(msg) == Ret("panic", NIL, msg)
ErrNilPointer == <<"invalid", "memory", "address", "or", "nil", "pointer", "dereference">>
NilValue == Ret("nil", NIL, <<>>)

---------------------------------------------------------------------------
(* Reachability and garbage collection.                                     *)

LiveBases(s) ==
    {s.ub[r].base : r \in DOMAIN s.ub}
        \cup {s.bb[r] : r \in DOMAIN s.bb}
        \cup (IF s.ret.kind = "BaseBuilder" THEN {s.ret.ref} ELSE {})

LiveUsers(s) ==
    ({s.ub[r].user : r \in DOMAIN s.ub}
        \cup (IF s.ret.kind = "TestUser" THEN {s.ret.ref} ELSE {})
        \cup {s.kept}) \ {NIL}

LiveMaps(s) ==
    ({s.base[a].tags : a \in LiveBases(s) \cap DOMAIN s.base}
        \cup {s.user[u].Tags : u \in LiveUsers(s) \cap DOMAIN s.user}
        \cup {s.user[u].Metadata : u \in LiveUsers(s) \cap DOMAIN s.user}
        \cup {s.config[c].Tags : c \in DOMAIN s.config}
        \cup {s.config[c].DefaultValues : c \in DOMAIN s.config}) \ {NIL}

Collect(s) ==
    [s EXCEPT !.base = Restrict(@, LiveBases(s)),
              !.user = Restrict(@, LiveUsers(s)),
              !.map = Restrict(@, LiveMaps(s))]

\* make(map[...]...): a new empty map, at `pref` when that address is free.
MakeMap(s, pref) ==
    LET t == Fresh(pref, DOMAIN s.map, MapAddrs)
    IN  [s |-> [s EXCEPT !.map = Put(@, t, EmptyMap)], addr |-> t]

---------------------------------------------------------------------------
(* builder.go: BaseBuilder                                                  *)

\* The struct NewBaseBuilder and Reset make.  errors is the contents of the
\* slice and errorsNil tells whether the slice is nil: make([]error, 0) is
\* an empty slice that is not nil.
BaseBuilder(t) ==
    [tags |-> t, validationEnabled |-> TRUE, errors |-> <<>>, errorsNil |-> FALSE]

\* NewBaseBuilder, allocated at address `pref` when free.
NewBaseBuilder(s, pref) ==
    LET a == Fresh(pref, DOMAIN s.base, BaseAddrs)
        m == MakeMap(s, TagsHome(a))
    IN  [s |-> [m.s EXCEPT !.base = Put(@, a, BaseBuilder(m.addr))], addr |-> a]

BaseBuilder_WithTag(s, a, key, value) ==
    LET s1 == IF s.base[a].tags = NIL
              THEN LET m == MakeMap(s, TagsHome(a))
                   IN  [m.s EXCEPT !.base[a].tags = m.addr]
              ELSE s
        t == s1.base[a].tags
    IN  Return([s1 EXCEPT !.map[t] = Put(@, key, value)], BaseBuilderRef(a))

BaseBuilder_GetTag(s, a, key) ==
    IF s.base[a].tags = NIL THEN ""
    ELSE IF key \in DOMAIN s.map[s.base[a].tags] THEN s.map[s.base[a].tags][key]
    ELSE ""

BaseBuilder_HasTag(s, a, key) ==
    IF s.base[a].tags = NIL THEN FALSE
    ELSE key \in DOMAIN s.map[s.base[a].tags]

\* A WithValidation that forgets the recorded errors when it disables
\* validation.
BaseBuilder_WithValidation_ClearsErrors(s, a, enabled) ==
    Return([s EXCEPT !.base[a].validationEnabled = enabled,
                     !.base[a].errors = IF enabled THEN @ ELSE <<>>],
           BaseBuilderRef(a))

BaseBuilder_WithValidation(s, a, enabled) ==
    Return([s EXCEPT !.base[a].validationEnabled = enabled], BaseBuilderRef(a))

BaseBuilder_IsValidationEnabled(s, a) == s.base[a].validationEnabled

NilError == <<>>

\* An AddError that puts the error in front of the list.
BaseBuilder_AddError_Prepends(s, a, err) ==
    Return(IF err # NilError
           THEN [s EXCEPT !.base[a].errors = <<err>> \o @,
                          !.base[a].errorsNil = FALSE]
           ELSE s,
           BaseBuilderRef(a))

BaseBuilder_AddError(s, a, err) ==
    Return(IF err # NilError
           THEN [s EXCEPT !.base[a].errors = Append(@, err),
                          !.base[a].errorsNil = FALSE]
           ELSE s,
           BaseBuilderRef(a))

BaseBuilder_GetErrors(s, a) == s.base[a].errors

BaseBuilder_HasErrors(s, a) == Len(s.base[a].errors) > 0

\* A ClearErrors that drops the slice: b.errors = nil.
BaseBuilder_ClearErrors_ToNil(s, a) ==
    Return([s EXCEPT !.base[a].errors = <<>>, !.base[a].errorsNil = TRUE],
           BaseBuilderRef(a))

BaseBuilder_ClearErrors(s, a) ==
    Return([s EXCEPT !.base[a].errors = <<>>, !.base[a].errorsNil = FALSE],
           BaseBuilderRef(a))

BaseBuilder_Build(s, a) == Return(s, NilValue)

\* A Reset that leaves the validation flag as it is.
BaseBuilder_Reset_KeepsValidation(s, a) ==
    LET s1 == Collect([s EXCEPT !.base[a].tags = NIL])
        m == MakeMap(s1, TagsHome(a))
    IN  Return([m.s EXCEPT !.base[a].tags = m.addr, !.base[a].errors = <<>>,
                           !.base[a].errorsNil = FALSE],
               BaseBuilderRef(a))

BaseBuilder_Reset(s, a) ==
    LET s1 == Collect([s EXCEPT !.base[a].tags = NIL])
        m == MakeMap(s1, TagsHome(a))
    IN  Return([m.s EXCEPT !.base[a] = BaseBuilder(m.addr)], BaseBuilderRef(a))

\* The range loop of Clone and Build: every entry of m, one by one.
CopyEntries(m) == [k \in DOMAIN m |-> m[k]]

\* A copy that stops one error short.
CopyErrors_DropsLast(errs) == [i \in 1..(Len(errs) - 1) |-> errs[i]]

\* make([]error, len(b.errors)) followed by copy(clone.errors, b.errors).
CopyErrors(errs) == [i \in 1..Len(errs) |-> errs[i]]

\* BaseBuilder.Clone; the clone is allocated at `pref` when free.
BaseBuilder_Clone(s, a, pref) ==
    LET c == Fresh(pref, DOMAIN s.base, BaseAddrs)
        m == MakeMap(s, TagsHome(c))
        src == IF s.base[a].tags = NIL THEN EmptyMap ELSE s.map[s.base[a].tags]
        s1 == [m.s EXCEPT
                 !.base = Put(@, c, [tags |-> m.addr,
                                     validationEnabled |-> s.base[a].validationEnabled,
                                     errors |-> CopyErrors(s.base[a].errors),
                                     errorsNil |-> FALSE]),
                 !.map[m.addr] = CopyEntries(src)]
    IN  Return(s1, BaseBuilderRef(c))

---------------------------------------------------------------------------
(* examples.go: TestUser and UserBuilder.  A UserBuilder is named by the    *)
(* caller's variable that holds it: st.ub[r] is the struct                  *)
(* {*BaseBuilder, user *TestUser} that variable r points to.                *)

TestUser(id, name, email, age, active, tags, metadata) ==
    [ID |-> id, Name |-> name, Email |-> email, Age |-> age, Active |-> active,
     Tags |-> tags, Metadata |-> metadata]

UserBuilder(base, user) == [base |-> base, user |-> user]

\* The caller's variable r no longer holds a builder.
Unbind(s, r) == Collect([s EXCEPT !.ub = Restrict(@, DOMAIN @ \ {r})])

\* &TestUser{Tags: make(...), Metadata: make(...)}, allocated at `pref`.
NewTestUser(s, pref) ==
    LET u == Fresh(pref, DOMAIN s.user, UserAddrs)
        t == MakeMap(s, UTagsHome(u))
        m == MakeMap(t.s, MetaHome(u))
    IN  [s |-> [m.s EXCEPT !.user = Put(@, u, TestUser(0, "", "", 0, FALSE, t.addr, m.addr))],
         addr |-> u]

\* r = NewUserBuilder()
NewUserBuilder(s, r) ==
    LET nb == NewBaseBuilder(Unbind(s, r), r)
        nu == NewTestUser(nb.s, r)
    IN  Return([nu.s EXCEPT !.ub = Put(@, r, UserBuilder(nb.addr, nu.addr))],
               UserBuilderRef(r))

ErrIDNegative == <<"user", "ID", "must", "be", "non-negative">>
ErrNameEmpty == <<"user", "name", "cannot", "be", "empty">>
ErrEmailEmpty == <<"user", "email", "cannot", "be", "empty">>
ErrAgeNegative == <<"user", "age", "must", "be", "non-negative">>
ErrNameRequired == <<"user", "name", "is", "required">>
ErrEmailRequired == <<"user", "email", "is", "required">>

\* WithID without the early return: the error is recorded and the id written.
UserBuilder_WithID_NoReturn(s, r, id) ==
    LET b == s.ub[r]
        s1 == IF BaseBuilder_IsValidationEnabled(s, b.base) /\ id < 0
              THEN BaseBuilder_AddError(s, b.base, ErrIDNegative)
              ELSE s
    IN  Return([s1 EXCEPT !.user[b.user].ID = id], UserBuilderRef(r))

UserBuilder_WithID(s, r, id) ==
    LET b == s.ub[r]
    IN  IF BaseBuilder_IsValidationEnabled(s, b.base) /\ id < 0
        THEN Return(BaseBuilder_AddError(s, b.base, ErrIDNegative), UserBuilderRef(r))
        ELSE Return([s EXCEPT !.user[b.user].ID = id], UserBuilderRef(r))

UserBuilder_WithName(s, r, name) ==
    LET b == s.ub[r]
    IN  IF BaseBuilder_IsValidationEnabled(s, b.base) /\ name = ""
        THEN Return(BaseBuilder_AddError(s, b.base, ErrNameEmpty), UserBuilderRef(r))
        ELSE Return([s EXCEPT !.user[b.user].Name = name], UserBuilderRef(r))

UserBuilder_WithEmail(s, r, email) ==
    LET b == s.ub[r]
    IN  IF BaseBuilder_IsValidationEnabled(s, b.base) /\ email = ""
        THEN Return(BaseBuilder_AddError(s, b.base, ErrEmailEmpty), UserBuilderRef(r))
        ELSE Return([s EXCEPT !.user[b.user].Email = email], UserBuilderRef(r))

\* WithAge that validates whatever the flag says.
UserBuilder_WithAge_AlwaysValidates(s, r, age) ==
    LET b == s.ub[r]
    IN  IF age < 0
        THEN Return(BaseBuilder_AddError(s, b.base, ErrAgeNegative), UserBuilderRef(r))
        ELSE Return([s EXCEPT !.user[b.user].Age = age], UserBuilderRef(r))

UserBuilder_WithAge(s, r, age) ==
    LET b == s.ub[r]
    IN  IF BaseBuilder_IsValidationEnabled(s, b.base) /\ age < 0
        THEN Return(BaseBuilder_AddError(s, b.base, ErrAgeNegative), UserBuilderRef(r))
        ELSE Return([s EXCEPT !.user[b.user].Age = age], UserBuilderRef(r))

UserBuilder_WithActive(s, r, active) ==
    Return([s EXCEPT !.user[s.ub[r].user].Active = active], UserBuilderRef(r))

\* A WithUserTag that also records the pair among the builder's own tags.
UserBuilder_WithUserTag_AlsoBuilderTag(s, r, key, value) ==
    LET u == s.ub[r].user
        s1 == IF s.user[u].Tags = NIL
              THEN LET m == MakeMap(s, UTagsHome(u))
                   IN  [m.s EXCEPT !.user[u].Tags = m.addr]
              ELSE s
        t == s1.user[u].Tags
        s2 == [s1 EXCEPT !.map[t] = Put(@, key, value)]
    IN  Return(BaseBuilder_WithTag(s2, s.ub[r].base, key, value), UserBuilderRef(r))

UserBuilder_WithUserTag(s, r, key, value) ==
    LET u == s.ub[r].user
        s1 == IF s.user[u].Tags = NIL
              THEN LET m == MakeMap(s, UTagsHome(u))
                   IN  [m.s EXCEPT !.user[u].Tags = m.addr]
              ELSE s
        t == s1.user[u].Tags
    IN  Return([s1 EXCEPT !.map[t] = Put(@, key, value)], UserBuilderRef(r))

UserBuilder_WithMetadata(s, r, key, value) ==
    LET u == s.ub[r].user
        s1 == IF s.user[u].Metadata = NIL
              THEN LET m == MakeMap(s, MetaHome(u))
                   IN  [m.s EXCEPT !.user[u].Metadata = m.addr]
              ELSE s
        t == s1.user[u].Metadata
    IN  Return([s1 EXCEPT !.map[t] = Put(@, key, value)], UserBuilderRef(r))

\* The entries a range loop over the map at address t visits (none for nil).
Entries(s, t) == IF t = NIL THEN EmptyMap ELSE s.map[t]

RECURSIVE JoinErrors(_)
\* %v of the elements of a []error: each error's text, in order.
JoinErrors(errs) ==
    IF errs = <<>> THEN <<>> ELSE Head(errs) \o JoinErrors(Tail(errs))

\* The message with the first error only (errs[0] for errs).
BuildErrorText_FirstOnly(errs) ==
    <<"cannot", "build", "user", "due", "to", "validation", "errors:">> \o Head(errs)

\* fmt.Errorf("cannot build user due to validation errors: %v", errs): the
\* text as a sequence of tokens; %v of a slice puts its elements in brackets.
BuildErrorText(errs) ==
    <<"cannot", "build", "user", "due", "to", "validation", "errors:">>
        \o <<"[">> \o JoinErrors(errs) \o <<"]">>

\* The copy with one field forgotten: Active keeps its zero value.
BuildCopy_WithoutActive(s, usr) ==
    LET e == Fresh("e1", DOMAIN s.user, EntityAddrs)
        t == MakeMap(s, UTagsHome(e))
        m == MakeMap(t.s, MetaHome(e))
    IN  Return([m.s EXCEPT
                  !.user = Put(@, e, TestUser(usr.ID, usr.Name, usr.Email, usr.Age,
                                              FALSE, t.addr, m.addr)),
                  !.map[t.addr] = CopyEntries(Entries(s, usr.Tags)),
                  !.map[m.addr] = CopyEntries(Entries(s, usr.Metadata))],
               TestUserRef(e))

\* The copy Build returns: the scalar fields and the entries of both maps.
BuildCopy(s, usr) ==
    LET e == Fresh("e1", DOMAIN s.user, EntityAddrs)
        t == MakeMap(s, UTagsHome(e))
        m == MakeMap(t.s, MetaHome(e))
    IN  Return([m.s EXCEPT
                  !.user = Put(@, e, TestUser(usr.ID, usr.Name, usr.Email, usr.Age,
                                              usr.Active, t.addr, m.addr)),
                  !.map[t.addr] = CopyEntries(Entries(s, usr.Tags)),
                  !.map[m.addr] = CopyEntries(Entries(s, usr.Metadata))],
               TestUserRef(e))

\* Build with the two required-field checks exchanged.
UserBuilder_Build_EmailFirst(s, r) ==
    LET b == s.ub[r]
        usr == s.user[b.user]
    IN  IF BaseBuilder_HasErrors(s, b.base)
        THEN Return(s, ErrorValue(BuildErrorText(BaseBuilder_GetErrors(s, b.base))))
        ELSE IF BaseBuilder_IsValidationEnabled(s, b.base) /\ usr.Email = ""
        THEN Return(s, ErrorValue(ErrEmailRequired))
        ELSE IF BaseBuilder_IsValidationEnabled(s, b.base) /\ usr.Name = ""
        THEN Return(s, ErrorValue(ErrNameRequired))
        ELSE BuildCopy(s, usr)

\* Build that hands the accumulated errors over: the list is empty afterwards.
UserBuilder_Build_Consuming(s, r) ==
    LET b == s.ub[r]
        usr == s.user[b.user]
    IN  IF BaseBuilder_HasErrors(s, b.base)
        THEN Return([s EXCEPT !.base[b.base].errors = <<>>],
                    ErrorValue(BuildErrorText(BaseBuilder_GetErrors(s, b.base))))
        ELSE IF BaseBuilder_IsValidationEnabled(s, b.base) /\ usr.Name = ""
        THEN Return(s, ErrorValue(ErrNameRequired))
        ELSE IF BaseBuilder_IsValidationEnabled(s, b.base) /\ usr.Email = ""
        THEN Return(s, ErrorValue(ErrEmailRequired))
        ELSE BuildCopy(s, usr)

UserBuilder_Build(s, r) ==
    LET b == s.ub[r]
        usr == s.user[b.user]
    IN  IF BaseBuilder_HasErrors(s, b.base)
        THEN Return(s, ErrorValue(BuildErrorText(BaseBuilder_GetErrors(s, b.base))))
        ELSE IF BaseBuilder_IsValidationEnabled(s, b.base) /\ usr.Name = ""
        THEN Return(s, ErrorValue(ErrNameRequired))
        ELSE IF BaseBuilder_IsValidationEnabled(s, b.base) /\ usr.Email = ""
        THEN Return(s, ErrorValue(ErrEmailRequired))
        ELSE BuildCopy(s, usr)

UserBuilder_Reset(s, r) ==
    LET s1 == BaseBuilder_Reset(s, s.ub[r].base)
        s2 == Collect([s1 EXCEPT !.ub[r].user = NIL])
        nu == NewTestUser(s2, r)
    IN  Return([nu.s EXCEPT !.ub[r].user = nu.addr], UserBuilderRef(r))

\* A Clone whose entity has the original's Tags map, not a copy of it.
UserBuilder_Clone_SharedTags(s, r, d) ==
    LET b == s.ub[r]
        usr == s.user[b.user]
        s1 == BaseBuilder_Clone(Unbind(s, d), b.base, d)
        nu == NewTestUser(s1, d)
        u == nu.addr
        s2 == [nu.s EXCEPT
                 !.user[u] = TestUser(usr.ID, usr.Name, usr.Email, usr.Age, usr.Active,
                                      usr.Tags, nu.s.user[u].Metadata),
                 !.map[nu.s.user[u].Metadata] = CopyEntries(Entries(s, usr.Metadata))]
    IN  Return([s2 EXCEPT !.ub = Put(@, d, UserBuilder(s1.ret.ref, u))],
               UserBuilderRef(d))

\* d = r.Clone(): the clone is held by the caller's variable d.
UserBuilder_Clone(s, r, d) ==
    LET b == s.ub[r]
        usr == s.user[b.user]
        s1 == BaseBuilder_Clone(Unbind(s, d), b.base, d)
        nu == NewTestUser(s1, d)
        u == nu.addr
        s2 == [nu.s EXCEPT
                 !.user[u] = TestUser(usr.ID, usr.Name, usr.Email, usr.Age, usr.Active,
                                      nu.s.user[u].Tags, nu.s.user[u].Metadata),
                 !.map[nu.s.user[u].Tags] = CopyEntries(Entries(s, usr.Tags)),
                 !.map[nu.s.user[u].Metadata] = CopyEntries(Entries(s, usr.Metadata))]
    IN  Return([s2 EXCEPT !.ub = Put(@, d, UserBuilder(s1.ret.ref, u))],
               UserBuilderRef(d))

---------------------------------------------------------------------------
(* The caller.  Every action is one call on the builder held by variable r; *)
(* the value the previous call returned is dropped when the next call is    *)
(* made, unless the caller kept it (Keep).                                  *)

\* The builder creation functions (values of type func() Builder) that are
\* registered: createUserBuilder of examples.go, the tests' closure
\* func() Builder { return NewBaseBuilder() }, and a closure that returns the
\* *BaseBuilder held by the caller's variable `shared`,
\* func() Builder { return shared }.
CreateUserBuilderFunc == "createUserBuilder"
NewBaseBuilderFunc == "newBaseBuilder"
SharedFunc == "shared"
\* A function that makes no builder: func() Builder { return nil }.
NilFunc == "returnsNil"

\* The state when the package is loaded: DefaultFactory is a new factory in
\* which init has registered createUserBuilder under "user".
NewState ==
    [ub |-> <<>>,          \* variable -> UserBuilder struct
     bb |-> <<>>,          \* variable -> address of a *BaseBuilder
     factory |-> [default |-> [user |-> CreateUserBuilderFunc]],
                           \* factory -> its builders map (name -> function)
     config |-> <<>>,      \* variable -> BuilderConfig struct
     base |-> <<>>,        \* address -> BaseBuilder struct
     user |-> <<>>,        \* address -> TestUser struct
     map |-> <<>>,         \* address -> map contents (key -> value)
     cell |-> <<>>,        \* address -> contents of a caller-owned object
     ret |-> NoRet,        \* the value the last call returned
     kept |-> NIL]         \* the *TestUser the caller holds on to

Entry == Collect([st EXCEPT !.ret = NoRet])

WithinBounds(s) == \A a \in DOMAIN s.base : Len(s.base[a].errors) <= MaxErrors

Call(s) == WithinBounds(s) /\ st' = Collect(s)

Has(r) == r \in DOMAIN st.ub

WithID(r, id) == Has(r) /\ Call(UserBuilder_WithID(Entry, r, id))
WithName(r, name) == Has(r) /\ Call(UserBuilder_WithName(Entry, r, name))
WithEmail(r, email) == Has(r) /\ Call(UserBuilder_WithEmail(Entry, r, email))
WithAge(r, age) == Has(r) /\ Call(UserBuilder_WithAge(Entry, r, age))
WithActive(r, active) == Has(r) /\ Call(UserBuilder_WithActive(Entry, r, active))
WithUserTag(r, k, v) == Has(r) /\ Call(UserBuilder_WithUserTag(Entry, r, k, v))
WithMetadata(r, k, v) == Has(r) /\ Call(UserBuilder_WithMetadata(Entry, r, k, v))
Build(r) == Has(r) /\ Call(UserBuilder_Build(Entry, r))
Reset(r) == Has(r) /\ Call(UserBuilder_Reset(Entry, r))
Clone(r, d) == Has(r) /\ r # d /\ Call(UserBuilder_Clone(Entry, r, d))

\* The methods promoted from the embedded *BaseBuilder.
WithTag(r, k, v) == Has(r) /\ Call(BaseBuilder_WithTag(Entry, st.ub[r].base, k, v))
WithValidation(r, enabled) ==
    Has(r) /\ Call(BaseBuilder_WithValidation(Entry, st.ub[r].base, enabled))
AddError(r, err) == Has(r) /\ Call(BaseBuilder_AddError(Entry, st.ub[r].base, err))
ClearErrors(r) == Has(r) /\ Call(BaseBuilder_ClearErrors(Entry, st.ub[r].base))

\* r.Clone() whose result the caller does not keep.
CloneAndDrop(r, d) ==
    Has(r) /\ r # d /\ ~Has(d)
        /\ Call(Return(Unbind(UserBuilder_Clone(Entry, r, d), d), NoRet))

\* user := the *TestUser that Build has just returned.
Keep ==
    /\ st.ret.kind = "TestUser"
    /\ st' = Collect([st EXCEPT !.kept = st.ret.ref, !.ret = NoRet])

\* user.<f> = v
SetEntityField(f, v) ==
    /\ st.kept # NIL
    /\ st' = [Entry EXCEPT !.user[st.kept][f] = v]

\* user.Tags[k] = v
SetEntityTag(k, v) ==
    /\ st.kept # NIL
    /\ st' = [Entry EXCEPT !.map[st.user[st.kept].Tags] = Put(@, k, v)]

\* user.Metadata[k] = v
SetEntityMetadata(k, v) ==
    /\ st.kept # NIL
    /\ st' = [Entry EXCEPT !.map[st.user[st.kept].Metadata] = Put(@, k, v)]

\* A write into the object that user.Metadata[k] refers to, such as
\* user.Metadata[k].(map[string]string)[x] = y.
WriteThroughEntityMetadata(k, content) ==
    /\ st.kept # NIL
    /\ k \in DOMAIN st.map[st.user[st.kept].Metadata]
    /\ st.map[st.user[st.kept].Metadata][k].t = "ref"
    /\ st' = [Entry EXCEPT !.cell[st.map[st.user[st.kept].Metadata][k].v] = content]

\* Observers on the builder held by variable r.
Base(s, r) == s.base[s.ub[r].base]
User(s, r) == s.user[s.ub[r].user]
Errors(s, r) == BaseBuilder_GetErrors(s, s.ub[r].base)
HasErrors(s, r) == BaseBuilder_HasErrors(s, s.ub[r].base)
IsValidationEnabled(s, r) == BaseBuilder_IsValidationEnabled(s, s.ub[r].base)

\* A metadata value (interface{}): a string, or a reference to an object the
\* caller owns (a map, a slice, a pointer), whose contents are in s.cell.
Str(v) == [t |-> "str", v |-> v]
Ref(c) == [t |-> "ref", v |-> c]

\* A metadata map as the caller can observe it: each value, and for a
\* reference the contents of the object it refers to.
Observed(s, m) ==
    [k \in DOMAIN m |->
        IF m[k].t = "ref" THEN <<m[k], s.cell[m[k].v]>> ELSE <<m[k]>>]

\* A TestUser as the caller can observe it: its fields and the contents of
\* its maps.
UserValue(s, u) ==
    [ID |-> s.user[u].ID, Name |-> s.user[u].Name, Email |-> s.user[u].Email,
     Age |-> s.user[u].Age, Active |-> s.user[u].Active,
     Tags |-> Entries(s, s.user[u].Tags),
     Metadata |-> Observed(s, Entries(s, s.user[u].Metadata))]

\* What Build on the builder held by r returns in state s.
BuildResult(s, r) == UserBuilder_Build(Collect([s EXCEPT !.ret = NoRet]), r)
BuildKind(s, r) == BuildResult(s, r).ret.kind
BuildText(s, r) == BuildResult(s, r).ret.msg
BuiltUser(s, r) == UserValue(BuildResult(s, r), BuildResult(s, r).ret.ref)

---------------------------------------------------------------------------
(* Spec: one builder, its validating setters, its error list and Build.     *)

IDs == {-1, 0, 1}
Names == {"", "Alice", "Bob"}
Emails == {"", "alice@x.com"}
Ages == {-1, 0, 28}
CustomError == <<"test", "error">>

NoneSet ==
    [ID |-> {}, Name |-> {}, Email |-> {}, Age |-> {}, Active |-> {},
     Tags |-> <<>>, Metadata |-> <<>>]

Init ==
    /\ st = Collect(NewUserBuilder(NewState, "orig"))
    /\ last = NoneSet
    /\ rejected = "never"
    /\ done = NoCall

\* A validating setter of variable r rejects its input in the current state.
Rejects(r, bad) == IsValidationEnabled(st, r) /\ bad

NoteRejected(r, bad) ==
    /\ rejected' = IF Rejects(r, bad) THEN "pending" ELSE rejected
    /\ UNCHANGED <<last, done>>

NoteCleared ==
    /\ rejected' = IF rejected = "never" THEN "never" ELSE "cleared"
    /\ UNCHANGED <<last, done>>

SetID == \E id \in IDs : WithID("orig", id) /\ NoteRejected("orig", id < 0)
SetName == \E n \in Names : WithName("orig", n) /\ NoteRejected("orig", n = "")
SetEmail == \E e \in Emails : WithEmail("orig", e) /\ NoteRejected("orig", e = "")
SetAge == \E a \in Ages : WithAge("orig", a) /\ NoteRejected("orig", a < 0)
SetActive == \E a \in BOOLEAN : WithActive("orig", a) /\ UNCHANGED <<last, rejected, done>>
SetValidation ==
    \E e \in BOOLEAN : WithValidation("orig", e) /\ UNCHANGED <<last, rejected, done>>
AddAnError ==
    \E e \in {NilError, CustomError} : AddError("orig", e) /\ UNCHANGED <<last, rejected, done>>
DoClearErrors == ClearErrors("orig") /\ NoteCleared
DoReset == Reset("orig") /\ NoteCleared
DoBuild == Build("orig") /\ UNCHANGED <<last, rejected, done>>

Next ==
    \/ SetID \/ SetName \/ SetEmail \/ SetAge \/ SetActive
    \/ SetValidation \/ AddAnError \/ DoClearErrors \/ DoReset \/ DoBuild

Spec == Init /\ [][Next]_vars

---------------------------------------------------------------------------
(* Shared vocabulary of the properties.                                     *)

\* The builder held by r as the caller can observe it: contents, no addresses.
BuilderValue(s, r) ==
    [tags |-> Entries(s, Base(s, r).tags),
     validationEnabled |-> Base(s, r).validationEnabled,
     errors |-> Base(s, r).errors,
     user |-> UserValue(s, s.ub[r].user)]

\* The value the last call returned, as the caller can observe it.
RetValue(s) ==
    IF s.ret.kind = "TestUser"
    THEN [kind |-> "TestUser", user |-> {UserValue(s, s.ret.ref)}, msg |-> <<>>]
    ELSE [kind |-> s.ret.kind, user |-> {}, msg |-> s.ret.msg]

\* The words w are in text at position i.
OccursAt(text, w, i) ==
    /\ i + Len(w) - 1 <= Len(text)
    /\ SubSeq(text, i, i + Len(w) - 1) = w

Contains(text, w) == \E i \in 1..Len(text) : OccursAt(text, w, i)

RECURSIVE InOrderFrom(_, _, _)
\* The texts of errs are in text one after the other, from position i on.
InOrderFrom(text, errs, i) ==
    IF errs = <<>> THEN TRUE
    ELSE \E j \in i..Len(text) :
            /\ OccursAt(text, Head(errs), j)
            /\ InOrderFrom(text, Tail(errs), j + Len(Head(errs)))

\* From st, the call that ends in state s2 has left field f of r's entity
\* alone and has appended exactly one error.
FieldKeptOneErrorMore(s2, r, f) ==
    /\ User(s2, r)[f] = User(st, r)[f]
    /\ Len(Errors(s2, r)) = Len(Errors(st, r)) + 1
    /\ SubSeq(Errors(s2, r), 1, Len(Errors(st, r))) = Errors(st, r)

\* If validation is enabled for r, each call of a validating setter with an
\* invalid input keeps the field and appends one error.
RejectingSettersKeepField(r) ==
    IsValidationEnabled(st, r) =>
        /\ \A id \in {i \in IDs : i < 0} :
              FieldKeptOneErrorMore(UserBuilder_WithID(Entry, r, id), r, "ID")
        /\ FieldKeptOneErrorMore(UserBuilder_WithName(Entry, r, ""), r, "Name")
        /\ FieldKeptOneErrorMore(UserBuilder_WithEmail(Entry, r, ""), r, "Email")
        /\ \A age \in {i \in Ages : i < 0} :
              FieldKeptOneErrorMore(UserBuilder_WithAge(Entry, r, age), r, "Age")

\* From st, the call that ends in state s2 has written v to field f of r's
\* entity and has appended no error.
FieldWrittenNoError(s2, r, f, v) ==
    /\ User(s2, r)[f] = v
    /\ Errors(s2, r) = Errors(st, r)

---------------------------------------------------------------------------
(* Properties of Spec.                                                      *)

\* C1, as amended: with validation enabled, each call of WithID with a
\* negative id, WithAge with a negative age, WithName("") or WithEmail("")
\* leaves the field at its prior value and appends exactly one error, and
\* every later Build returns an error value until ClearErrors or Reset is
\* called on the builder.
C1_RejectedInputFailsBuildUntilCleared ==
    /\ RejectingSettersKeepField("orig")
    /\ rejected = "pending" => BuildKind(st, "orig") = "error"

\* C1 as stated: ... and every later Build on that builder returns an error
\* value, never a TestUser.
C1_RejectedInputFailsEveryLaterBuild ==
    /\ RejectingSettersKeepField("orig")
    /\ rejected # "never" => BuildKind(st, "orig") = "error"

\* A negative id was rejected after the id had been set to 1, and Build has
\* returned the error.
C1_Witness ==
    /\ rejected = "pending"
    /\ User(st, "orig").ID = 1
    /\ Errors(st, "orig") = <<ErrIDNegative>>
    /\ st.ret.kind = "error"

\* C2: in every state whose error list is non-empty, Build returns a single
\* error value, whatever the validation flag and the fields are, and its text
\* holds the texts of all accumulated errors in insertion order; once
\* WithID(-1) has been rejected HasErrors is true, and while that error is in
\* the list the text of Build's error contains "non-negative".
C2_ErrorsFailBuildWithAllTexts ==
    /\ HasErrors(st, "orig") =>
          /\ BuildKind(st, "orig") = "error"
          /\ InOrderFrom(BuildText(st, "orig"), Errors(st, "orig"), 1)
    /\ rejected = "pending" => HasErrors(st, "orig")
    /\ (\E i \in 1..Len(Errors(st, "orig")) : Errors(st, "orig")[i] = ErrIDNegative)
          => Contains(BuildText(st, "orig"), <<"non-negative">>)

\* Two different errors are recorded, validation is off, name and email are
\* set, and Build has returned the error.
C2_Witness ==
    /\ Len(Errors(st, "orig")) = 2
    /\ Errors(st, "orig")[1] # Errors(st, "orig")[2]
    /\ ~IsValidationEnabled(st, "orig")
    /\ User(st, "orig").Name # ""
    /\ User(st, "orig").Email # ""
    /\ st.ret.kind = "error"

\* C4: while validation is disabled every setter writes its input, negative
\* id and age and empty name and email included, and appends no error; and
\* Build makes no required-field check: with an empty error list it returns a
\* TestUser even when name and email are empty.
C4_DisabledValidationAcceptsAll ==
    ~IsValidationEnabled(st, "orig") =>
        /\ \A id \in IDs :
              FieldWrittenNoError(UserBuilder_WithID(Entry, "orig", id), "orig", "ID", id)
        /\ \A n \in Names :
              FieldWrittenNoError(UserBuilder_WithName(Entry, "orig", n), "orig", "Name", n)
        /\ \A e \in Emails :
              FieldWrittenNoError(UserBuilder_WithEmail(Entry, "orig", e), "orig", "Email", e)
        /\ \A a \in Ages :
              FieldWrittenNoError(UserBuilder_WithAge(Entry, "orig", a), "orig", "Age", a)
        /\ \A a \in BOOLEAN :
              FieldWrittenNoError(UserBuilder_WithActive(Entry, "orig", a), "orig", "Active", a)
        /\ ~HasErrors(st, "orig") => BuildKind(st, "orig") = "TestUser"

\* Validation is off, the entity holds a negative id and age and an empty name
\* and email, no error is recorded, and Build has returned the TestUser.
C4_Witness ==
    /\ ~IsValidationEnabled(st, "orig")
    /\ ~HasErrors(st, "orig")
    /\ User(st, "orig").ID = -1 /\ User(st, "orig").Age = -1
    /\ User(st, "orig").Name = "" /\ User(st, "orig").Email = ""
    /\ st.ret.kind = "TestUser"
    /\ UserValue(st, st.ret.ref).ID = -1

\* C5: with validation enabled and an empty error list, Build returns an
\* error exactly when the name or the email is empty, the name being checked
\* first; the error is returned only: the error list is still empty after it.
C5_RequiredFieldsCheckedAtBuild ==
    IsValidationEnabled(st, "orig") /\ ~HasErrors(st, "orig") =>
        /\ BuildKind(st, "orig") = "error"
              <=> (User(st, "orig").Name = "" \/ User(st, "orig").Email = "")
        /\ User(st, "orig").Name = "" => BuildText(st, "orig") = ErrNameRequired
        /\ User(st, "orig").Name # "" /\ User(st, "orig").Email = ""
              => BuildText(st, "orig") = ErrEmailRequired
        /\ ~HasErrors(BuildResult(st, "orig"), "orig")

\* Only the email is missing and Build has returned the required-field error;
\* the error list is empty.
C5_Witness ==
    /\ IsValidationEnabled(st, "orig")
    /\ ~HasErrors(st, "orig")
    /\ User(st, "orig").Name = "Alice"
    /\ User(st, "orig").Email = ""
    /\ st.ret = ErrorValue(ErrEmailRequired)

\* C10: Build leaves the builder's tags, validation flag, error list and
\* entity as they were, whether it succeeds or not, and a Build that follows a
\* Build directly returns an equal result.
C10_BuildIsNotConsuming ==
    LET s2 == BuildResult(st, "orig")
    IN  /\ BuilderValue(s2, "orig") = BuilderValue(st, "orig")
        /\ RetValue(BuildResult(s2, "orig")) = RetValue(s2)

\* Build has returned the error of a builder with two errors, and both are
\* still in its list.
C10_Witness ==
    /\ st.ret.kind = "error"
    /\ Len(Errors(st, "orig")) = 2
    /\ st.ret.msg = BuildErrorText(Errors(st, "orig"))

---------------------------------------------------------------------------
(* SpecChain: a freshly constructed builder under chains of setter calls    *)
(* with valid inputs only, and Build.  `last` records the value each setter *)
(* was last called with ({} while it was never called).                     *)

ValidIDs == {id \in IDs : id >= 0}
ValidNames == Names \ {""}
ValidEmails == {"alice@x.com", "bob@x.com"}
ValidAges == {a \in Ages : a >= 0}
UserTagKeys == {"department"}
UserTagValues == {"engineering", "sales"}
MetadataKeys == {"hire_date"}
MetadataValues == {Str("2023-01-15"), Str("2024-02-01")}

ChainID ==
    \E id \in ValidIDs :
        WithID("orig", id) /\ last' = [last EXCEPT !.ID = {id}] /\ UNCHANGED <<rejected, done>>
ChainName ==
    \E n \in ValidNames :
        WithName("orig", n) /\ last' = [last EXCEPT !.Name = {n}] /\ UNCHANGED <<rejected, done>>
ChainEmail ==
    \E e \in ValidEmails :
        WithEmail("orig", e) /\ last' = [last EXCEPT !.Email = {e}] /\ UNCHANGED <<rejected, done>>
ChainAge ==
    \E a \in ValidAges :
        WithAge("orig", a) /\ last' = [last EXCEPT !.Age = {a}] /\ UNCHANGED <<rejected, done>>
ChainActive ==
    \E a \in BOOLEAN :
        WithActive("orig", a) /\ last' = [last EXCEPT !.Active = {a}] /\ UNCHANGED <<rejected, done>>
ChainUserTag ==
    \E k \in UserTagKeys, v \in UserTagValues :
        /\ WithUserTag("orig", k, v)
        /\ last' = [last EXCEPT !.Tags = Put(@, k, v)]
        /\ UNCHANGED <<rejected, done>>
ChainMetadata ==
    \E k \in MetadataKeys, v \in MetadataValues :
        /\ WithMetadata("orig", k, v)
        /\ last' = [last EXCEPT !.Metadata = Put(@, k, v)]
        /\ UNCHANGED <<rejected, done>>
ChainBuild == Build("orig") /\ UNCHANGED <<last, rejected, done>>

NextChain ==
    \/ ChainID \/ ChainName \/ ChainEmail \/ ChainAge \/ ChainActive
    \/ ChainUserTag \/ ChainMetadata \/ ChainBuild

SpecChain == Init /\ [][NextChain]_vars

\* The TestUser value u has, for everything a setter was called for, the value
\* of the last call.
AgreesWithLast(u) ==
    /\ \A f \in {"ID", "Name", "Email", "Age", "Active"} : last[f] # {} => u[f] \in last[f]
    /\ \A k \in DOMAIN last.Tags : k \in DOMAIN u.Tags /\ u.Tags[k] = last.Tags[k]
    /\ \A k \in DOMAIN last.Metadata :
          k \in DOMAIN u.Metadata /\ u.Metadata[k] = <<last.Metadata[k]>>

BuildYieldsLast ==
    /\ BuildKind(st, "orig") = "TestUser"
    /\ AgreesWithLast(BuiltUser(st, "orig"))

\* C3, as amended: for a freshly constructed UserBuilder, after any chain of
\* setter calls whose inputs are all valid and among which are WithName and
\* WithEmail, Build returns a TestUser in which every field, user tag and
\* metadata key equals the last value set for it.
C3_ValidChainWithNameAndEmailBuildsLastValues ==
    last.Name # {} /\ last.Email # {} => BuildYieldsLast

\* C3 as stated: after any chain of setter calls whose inputs are all valid,
\* Build returns a TestUser with the last values set.
C3_ValidChainBuildsLastValues ==
    last # NoneSet => BuildYieldsLast

\* The scenario of the specification: Alice, alice@x.com, 28, active, tag
\* department=engineering (sales was set before), built.
C3_Witness ==
    /\ st.ret.kind = "TestUser"
    /\ UserValue(st, st.ret.ref).Name = "Alice"
    /\ UserValue(st, st.ret.ref).Email = "alice@x.com"
    /\ UserValue(st, st.ret.ref).Age = 28
    /\ UserValue(st, st.ret.ref).Active
    /\ UserValue(st, st.ret.ref).Tags = [department |-> "engineering"]
    /\ last.Tags = [department |-> "engineering"]
    /\ last.ID = {} /\ last.Metadata = <<>>

---------------------------------------------------------------------------
(* SpecEntity: a builder and the TestUser a Build returned, which the       *)
(* caller keeps and writes to while it goes on calling the builder.  The    *)
(* caller owns one object (say a map), Cell, that it may pass as a metadata *)
(* value.                                                                   *)

Cell == "c1"
CellContents == {"x", "y"}
EntityMetadataValues == {Str("2023-01-15"), Ref(Cell)}

InitEntity ==
    /\ st = [Collect(NewUserBuilder(NewState, "orig")) EXCEPT !.cell = Put(@, Cell, "x")]
    /\ last = NoneSet
    /\ rejected = "never"
    /\ done = NoCall

\* The calls on the builder.
EntityBuilderCall ==
    \/ WithName("orig", "Alice")
    \/ WithEmail("orig", "alice@x.com")
    \/ WithAge("orig", 28)
    \/ \E k \in UserTagKeys : WithUserTag("orig", k, "engineering")
    \/ \E k \in MetadataKeys, v \in EntityMetadataValues : WithMetadata("orig", k, v)
    \/ Reset("orig")
    \/ CloneAndDrop("orig", "clone")
    \/ Build("orig")

\* The writes to the fields and to the entries of the maps of the kept entity.
EntityWrite ==
    \/ SetEntityField("Name", "Modified")
    \/ SetEntityField("Age", 99)
    \/ \E k \in UserTagKeys : SetEntityTag(k, "sales")
    \/ \E k \in MetadataKeys : SetEntityMetadata(k, Str("2024-02-01"))

\* The writes into an object that a metadata value of the kept entity
\* refers to.
EntityWriteThrough ==
    \E k \in MetadataKeys, c \in CellContents : WriteThroughEntityMetadata(k, c)

NextEntity ==
    \/ EntityBuilderCall /\ UNCHANGED <<last, rejected, done>>
    \/ Keep /\ UNCHANGED <<last, rejected, done>>
    \/ EntityWrite /\ UNCHANGED <<last, rejected, done>>
    \/ EntityWriteThrough /\ UNCHANGED <<last, rejected, done>>

SpecEntity == InitEntity /\ [][NextEntity]_vars

\* The step leaves the kept entity as it was.
KeptEntityUnchanged == UserValue(st', st.kept) = UserValue(st, st.kept)

\* The step leaves the builder's entity-in-progress and what its next Build
\* returns as they were.
BuilderUnchanged ==
    /\ BuilderValue(st', "orig") = BuilderValue(st, "orig")
    /\ RetValue(BuildResult(st', "orig")) = RetValue(BuildResult(st, "orig"))

\* C6: a TestUser returned by a successful Build shares no state with the
\* builder: a later setter, Reset or Clone call on the builder leaves the
\* entity unchanged, and a mutation of the entity leaves the builder's
\* entity-in-progress and the result of its next Build unchanged.
C6_BuiltEntitySharesNoState ==
    [][/\ st.kept # NIL /\ EntityBuilderCall => KeptEntityUnchanged
       /\ EntityWrite \/ EntityWriteThrough => BuilderUnchanged]_vars

\* What holds of the code: the same for the entity's fields and for the
\* entries of its two maps; objects that metadata values refer to stay shared.
C6_FieldsAndMapEntriesIndependent ==
    [][/\ st.kept # NIL /\ EntityBuilderCall => KeptEntityUnchanged
       /\ EntityWrite => BuilderUnchanged]_vars

\* The kept entity and the builder's entity hold the same reference, and the
\* entity's fields and maps have been written to.
C6_SharedReference ==
    /\ st.kept # NIL
    /\ UserValue(st, st.kept).Name = "Modified"
    /\ UserValue(st, st.kept).Tags = [department |-> "sales"]
    /\ "hire_date" \in DOMAIN Entries(st, st.user[st.kept].Metadata)
    /\ Entries(st, st.user[st.kept].Metadata)["hire_date"] = Ref(Cell)
    /\ Entries(st, User(st, "orig").Metadata) = [hire_date |-> Ref(Cell)]
    /\ User(st, "orig").Metadata # st.user[st.kept].Metadata

---------------------------------------------------------------------------
(* SpecClone: a builder and its clone, each configured, reset and built on  *)
(* its own.                                                                 *)

BuilderTagKeys == {"env"}
BuilderTagValues == {"test"}

\* The builder held by r has tags, errors, validation disabled and a name.
Configured(s, r) ==
    /\ Entries(s, Base(s, r).tags) # EmptyMap
    /\ HasErrors(s, r)
    /\ ~IsValidationEnabled(s, r)
    /\ User(s, r).Name # ""

Note(op, r) == done' = Done(op, r, Configured(st, r)) /\ UNCHANGED <<last, rejected>>
NoNote == done' = NoCall /\ UNCHANGED <<last, rejected>>

CloneName(r) == WithName(r, "Alice") /\ NoNote
CloneTag(r) ==
    \E k \in BuilderTagKeys, v \in BuilderTagValues : WithTag(r, k, v) /\ NoNote
CloneUserTag(r) == \E k \in UserTagKeys : WithUserTag(r, k, "engineering") /\ NoNote
CloneMetadata(r) ==
    \E k \in MetadataKeys : WithMetadata(r, k, Str("2023-01-15")) /\ NoNote
CloneValidation(r) == \E e \in BOOLEAN : WithValidation(r, e) /\ NoNote
\* The caller adds an error to a builder that has none.
CloneAddError(r) == Has(r) /\ ~HasErrors(st, r) /\ AddError(r, CustomError) /\ NoNote
CloneClearErrors(r) == ClearErrors(r) /\ NoNote
CloneReset(r) == Reset(r) /\ Note("Reset", r)
CloneBuild(r) == Build(r) /\ NoNote
CloneClone == Clone("orig", "clone") /\ Note("Clone", "orig")

NextClone ==
    \/ \E r \in Roles : CloneName(r)
    \/ \E r \in Roles : CloneTag(r)
    \/ \E r \in Roles : CloneUserTag(r)
    \/ \E r \in Roles : CloneMetadata(r)
    \/ \E r \in Roles : CloneValidation(r)
    \/ \E r \in Roles : CloneAddError(r)
    \/ \E r \in Roles : CloneClearErrors(r)
    \/ \E r \in Roles : CloneReset(r)
    \/ \E r \in Roles : CloneBuild(r)
    \/ CloneClone

SpecClone == Init /\ [][NextClone]_vars

\* The objects the builder held by r is made of: its BaseBuilder, its
\* TestUser and its three maps.
Objects(s, r) ==
    {<<"base", s.ub[r].base>>, <<"user", s.ub[r].user>>,
     <<"map", Base(s, r).tags>>, <<"map", User(s, r).Tags>>,
     <<"map", User(s, r).Metadata>>}

\* The states one mutating call on the builder held by r can end in.
AfterMutation(s, r) ==
    {UserBuilder_WithID(s, r, 1), UserBuilder_WithName(s, r, "Modified"),
     UserBuilder_WithName(s, r, ""), UserBuilder_WithEmail(s, r, "alice@x.com"),
     UserBuilder_WithAge(s, r, -1), UserBuilder_WithActive(s, r, TRUE),
     UserBuilder_WithUserTag(s, r, "new", "value"),
     UserBuilder_WithMetadata(s, r, "new", Str("value")),
     BaseBuilder_WithTag(s, s.ub[r].base, "new", "value"),
     BaseBuilder_WithValidation(s, s.ub[r].base, TRUE),
     BaseBuilder_WithValidation(s, s.ub[r].base, FALSE),
     BaseBuilder_AddError(s, s.ub[r].base, CustomError),
     BaseBuilder_ClearErrors(s, s.ub[r].base),
     UserBuilder_Reset(s, r)}

\* The builder held by o is in s2 what it is now, and so is what its next
\* Build returns.
SameBuilder(s2, o) ==
    /\ BuilderValue(s2, o) = BuilderValue(st, o)
    /\ RetValue(BuildResult(s2, o)) = RetValue(BuildResult(st, o))

\* C7: Clone returns a distinct builder, made of objects of its own, and Build
\* on the original and on the clone right after it return equal results; from
\* then on a mutating call on one of the two leaves the other's tags,
\* validation flag, errors, entity and next Build result as they were.
C7_CloneIsEqualAndIndependent ==
    /\ LET s2 == Collect(UserBuilder_Clone(Entry, "orig", "clone"))
       IN  /\ s2.ret = UserBuilderRef("clone")
           /\ Objects(s2, "clone") \cap Objects(s2, "orig") = {}
           /\ BuilderValue(s2, "clone") = BuilderValue(st, "orig")
           /\ RetValue(BuildResult(s2, "clone")) = RetValue(BuildResult(s2, "orig"))
           /\ SameBuilder(s2, "orig")
    /\ Has("clone") =>
          \A r \in Roles : \A s2 \in AfterMutation(Entry, r) :
              \A o \in Roles \ {r} : SameBuilder(Collect(s2), o)

\* The original has a tag, a name, a user tag and a metadata entry, and its
\* Build succeeds; its clone has since been given an error and been reset.
C7_Witness ==
    /\ Has("clone")
    /\ BuildKind(st, "orig") = "TestUser"
    /\ BuiltUser(st, "orig").Name = "Alice"
    /\ BuiltUser(st, "orig").Tags # EmptyMap
    /\ BuiltUser(st, "orig").Metadata # EmptyMap
    /\ Entries(st, Base(st, "orig").tags) # EmptyMap
    /\ done = Done("Reset", "clone", TRUE)
    /\ User(st, "clone").Name = ""

\* The state with the builder held by r and nothing else.
Only(s, r) ==
    Collect([s EXCEPT !.ub = Restrict(@, {r}), !.ret = NoRet, !.kept = NIL])

\* C9: Reset returns the builder it is called on and leaves it as
\* NewUserBuilder makes one: no tags, validation enabled, no errors, a zero
\* entity with two empty maps, hence the same outcome of Build and of every
\* sequence of calls that follows; a second builder is left as it was.
C9_ResetEqualsNewUserBuilder ==
    \A r \in DOMAIN st.ub :
        LET s2 == Collect(UserBuilder_Reset(Entry, r))
            new == Collect(NewUserBuilder(NewState, r))
        IN  /\ s2.ret = UserBuilderRef(r)
            /\ \A k \in BuilderTagKeys : ~BaseBuilder_HasTag(s2, s2.ub[r].base, k)
            /\ IsValidationEnabled(s2, r)
            /\ ~HasErrors(s2, r)
            /\ UserValue(s2, s2.ub[r].user)
                  = [ID |-> 0, Name |-> "", Email |-> "", Age |-> 0, Active |-> FALSE,
                     Tags |-> EmptyMap, Metadata |-> EmptyMap]
            /\ BuilderValue(s2, r) = BuilderValue(new, r)
            /\ RetValue(BuildResult(s2, r)) = RetValue(BuildResult(new, r))
            /\ Only(s2, r) = Only(new, r)
            /\ \A o \in DOMAIN st.ub \ {r} : SameBuilder(s2, o)

\* Reset has just been called on a builder that had tags, errors, validation
\* disabled and a name, and has returned it.
C9_Witness ==
    /\ done = Done("Reset", "orig", TRUE)
    /\ st.ret = UserBuilderRef("orig")
    /\ Only(st, "orig") = Only(NewUserBuilder(NewState, "orig"), "orig")

---------------------------------------------------------------------------
(* SpecErrors: a builder and its clone, and their error lists.              *)

ErrorsName(r) == WithName(r, "") /\ NoNote
ErrorsValidation(r) == \E e \in BOOLEAN : WithValidation(r, e) /\ NoNote
ErrorsAddError(r) == \E e \in {NilError, CustomError} : AddError(r, e) /\ NoNote
ErrorsClearErrors(r) == ClearErrors(r) /\ NoNote
ErrorsBuild(r) == Build(r) /\ NoNote
ErrorsClone == Clone("orig", "clone") /\ Note("Clone", "orig")

NextErrors ==
    \/ \E r \in Roles : ErrorsName(r)
    \/ \E r \in Roles : ErrorsValidation(r)
    \/ \E r \in Roles : ErrorsAddError(r)
    \/ \E r \in Roles : ErrorsClearErrors(r)
    \/ \E r \in Roles : ErrorsBuild(r)
    \/ ErrorsClone

SpecErrors == Init /\ [][NextErrors]_vars

\* The states a call that adds or clears errors on the builder held by r can
\* end in.
AfterErrorsChange(s, r) ==
    {BaseBuilder_AddError(s, s.ub[r].base, CustomError),
     BaseBuilder_AddError(s, s.ub[r].base, ErrAgeNegative),
     UserBuilder_WithName(s, r, ""),
     BaseBuilder_ClearErrors(s, s.ub[r].base)}

\* C8: right after Clone the clone's GetErrors is the original's, error by
\* error in the same order, so the clone of a builder with errors has
\* HasErrors true and its Build returns an error; adding errors to one of the
\* two, or clearing them, leaves the other's error list as it was.
C8_CloneCopiesErrors ==
    /\ LET s2 == Collect(UserBuilder_Clone(Entry, "orig", "clone"))
       IN  /\ Errors(s2, "clone") = Errors(st, "orig")
           /\ Errors(s2, "orig") = Errors(st, "orig")
           /\ HasErrors(st, "orig") =>
                 /\ HasErrors(s2, "clone")
                 /\ BuildKind(s2, "clone") = "error"
                 /\ BuildText(s2, "clone") = BuildErrorText(Errors(st, "orig"))
    /\ done.op = "Clone" => Errors(st, "clone") = Errors(st, "orig")
    /\ Has("clone") =>
          \A r \in Roles : \A s2 \in AfterErrorsChange(Entry, r) :
              \A o \in Roles \ {r} : Errors(Collect(s2), o) = Errors(st, o)

\* Clone has just copied a list of two different errors.
C8_Witness ==
    /\ done.op = "Clone"
    /\ Errors(st, "orig") = <<ErrNameEmpty, CustomError>>
    /\ Errors(st, "clone") = <<ErrNameEmpty, CustomError>>
    /\ BuildKind(st, "clone") = "error"

\* The error lists of the two have since been changed apart.
C8_ChangedApart ==
    /\ Has("clone")
    /\ Errors(st, "orig") = <<ErrNameEmpty>>
    /\ Errors(st, "clone") = <<CustomError, CustomError>>

---------------------------------------------------------------------------
(* factory.go: BuilderFactory.  A factory is named by the variable that     *)
(* holds it; DefaultFactory is the package's variable.  d, err =            *)
(* f.Create(name) leaves the builder in the caller's variable d (unbound    *)
(* when the builder is nil) and the error in ret.                           *)

DefaultFactory == "default"

ErrBuilderNameEmpty == <<"builder", "name", "cannot", "be", "empty">>
ErrCreateFuncNil == <<"builder", "creation", "function", "cannot", "be", "nil">>
ErrNotRegistered(name) == <<"builder", "'" \o name \o "'", "not", "registered">>

\* f = NewBuilderFactory()
NewBuilderFactory(s, f) == [s EXCEPT !.factory = Put(@, f, EmptyMap)]

\* A Register that stores the function before it checks its arguments.
BuilderFactory_Register_StoresFirst(s, f, name, createFunc) ==
    LET s1 == [s EXCEPT !.factory[f] = Put(@, name, createFunc)]
    IN  IF name = "" THEN Return(s1, ErrorValue(ErrBuilderNameEmpty))
        ELSE IF createFunc = NIL THEN Return(s1, ErrorValue(ErrCreateFuncNil))
        ELSE Return(s1, NilValue)

\* A Register that keeps the function a name already has.
BuilderFactory_Register_FirstWins(s, f, name, createFunc) ==
    IF name = "" THEN Return(s, ErrorValue(ErrBuilderNameEmpty))
    ELSE IF createFunc = NIL THEN Return(s, ErrorValue(ErrCreateFuncNil))
    ELSE IF name \in DOMAIN s.factory[f] THEN Return(s, NilValue)
    ELSE Return([s EXCEPT !.factory[f] = Put(@, name, createFunc)], NilValue)

BuilderFactory_Register(s, f, name, createFunc) ==
    IF name = "" THEN Return(s, ErrorValue(ErrBuilderNameEmpty))
    ELSE IF createFunc = NIL THEN Return(s, ErrorValue(ErrCreateFuncNil))
    ELSE Return([s EXCEPT !.factory[f] = Put(@, name, createFunc)], NilValue)

\* The caller's variable d holds no builder.
UnbindVar(s, d) ==
    Collect([s EXCEPT !.ub = Restrict(@, DOMAIN @ \ {d}),
                      !.bb = Restrict(@, DOMAIN @ \ {d})])

\* d = createFunc()
Invoke(s, createFunc, d) ==
    IF createFunc = CreateUserBuilderFunc THEN NewUserBuilder(UnbindVar(s, d), d)
    ELSE IF createFunc = NewBaseBuilderFunc
    THEN LET nb == NewBaseBuilder(UnbindVar(s, d), d)
         IN  [nb.s EXCEPT !.bb = Put(@, d, nb.addr)]
    ELSE IF createFunc = NilFunc THEN UnbindVar(s, d)
    ELSE [UnbindVar(s, d) EXCEPT !.bb = Put(@, d, s.bb["shared"])]

\* A Create that answers an unregistered name with a new BaseBuilder.
BuilderFactory_Create_DefaultsToBase(s, f, name, d) ==
    IF name \notin DOMAIN s.factory[f]
    THEN Return(Invoke(s, NewBaseBuilderFunc, d), NilValue)
    ELSE Return(Invoke(s, s.factory[f][name], d), NilValue)

\* A Create that hands out again a *BaseBuilder the caller already holds.
BuilderFactory_Create_Cached(s, f, name, d) ==
    IF name \notin DOMAIN s.factory[f]
    THEN Return(UnbindVar(s, d), ErrorValue(ErrNotRegistered(name)))
    ELSE IF s.factory[f][name] = NewBaseBuilderFunc /\ DOMAIN s.bb \ {d} # {}
    THEN Return([UnbindVar(s, d) EXCEPT
                    !.bb = Put(@, d, s.bb[CHOOSE e \in DOMAIN s.bb \ {d} : TRUE])],
                NilValue)
    ELSE Return(Invoke(s, s.factory[f][name], d), NilValue)

BuilderFactory_Create(s, f, name, d) ==
    IF name \notin DOMAIN s.factory[f]
    THEN Return(UnbindVar(s, d), ErrorValue(ErrNotRegistered(name)))
    ELSE Return(Invoke(s, s.factory[f][name], d), NilValue)

BuilderFactory_IsRegistered(s, f, name) == name \in DOMAIN s.factory[f]

\* The sequences that hold every element of S once.
RECURSIVE Orderings(_)
Orderings(S) ==
    IF S = {} THEN {<<>>}
    ELSE UNION {{<<x>> \o o : o \in Orderings(S \ {x})} : x \in S}

\* A GetRegisteredNames whose slice is one name short.
BuilderFactory_GetRegisteredNames_OneShort(s, f) ==
    {SubSeq(o, 1, Len(o) - 1) : o \in Orderings(DOMAIN s.factory[f])}

\* The slices GetRegisteredNames can return: a Go map is ranged over in an
\* order that is not specified.
BuilderFactory_GetRegisteredNames(s, f) == Orderings(DOMAIN s.factory[f])

\* A RegisterBuilder that registers in every factory.
RegisterBuilder_Everywhere(s, name, createFunc) ==
    LET s1 == BuilderFactory_Register(s, DefaultFactory, name, createFunc)
    IN  IF s1.ret = NilValue
        THEN [s1 EXCEPT !.factory = [f \in DOMAIN @ |-> Put(@[f], name, createFunc)]]
        ELSE s1

RegisterBuilder(s, name, createFunc) ==
    BuilderFactory_Register(s, DefaultFactory, name, createFunc)

CreateBuilder(s, name, d) == BuilderFactory_Create(s, DefaultFactory, name, d)

---------------------------------------------------------------------------
(* The caller of the factories.                                             *)

HasFactory(f) == f \in DOMAIN st.factory

NewFactory(f) == ~HasFactory(f) /\ Call(Return(NewBuilderFactory(Entry, f), NoRet))
Register(f, name, createFunc) ==
    HasFactory(f) /\ Call(BuilderFactory_Register(Entry, f, name, createFunc))
Create(f, name, d) == HasFactory(f) /\ Call(BuilderFactory_Create(Entry, f, name, d))
GetRegisteredNames(f) ==
    /\ HasFactory(f)
    /\ \E names \in BuilderFactory_GetRegisteredNames(Entry, f) :
          Call(Return(Entry, Ret("names", NIL, names)))

\* builder == nil: the caller's variable d, of the interface type Builder,
\* holds nothing.
IsNilBuilder(s, d) == d \notin DOMAIN s.ub /\ d \notin DOMAIN s.bb

\* The variable d holds a *BaseBuilder that is a nil pointer: as a Builder it
\* is not equal to nil.
IsNilPointer(s, d) == d \in DOMAIN s.bb /\ s.bb[d] = NIL

\* The *BaseBuilder of the builder the caller's variable d holds.
BaseOf(s, d) == IF d \in DOMAIN s.ub THEN s.ub[d].base ELSE s.bb[d]

---------------------------------------------------------------------------
(* SpecFactory: the default factory and two private ones, under Register,   *)
(* Create and GetRegisteredNames.  Here `last` is, for each factory, the    *)
(* function of the last Register that returned nil for each name.           *)

PrivateFactories == {"f1", "f2"}
Factories == {DefaultFactory} \cup PrivateFactories
FactoryNames == {"", "user", "test"}
\* The names the caller registers in a private factory.
PrivateNames == {"", "test"}
CreateFuncs == {NIL, CreateUserBuilderFunc, NewBaseBuilderFunc}

InitFactory ==
    /\ st = NewState
    /\ last = [f \in {DefaultFactory} |-> [user |-> CreateUserBuilderFunc]]
    /\ rejected = "never"
    /\ done = NoCall

\* The history of a Register call.
NoteRegister(f, name, createFunc) ==
    /\ last' = IF st'.ret = NilValue THEN [last EXCEPT ![f] = Put(@, name, createFunc)]
               ELSE last
    /\ done' = Done("Register", f, name \in DOMAIN last[f] /\ st'.ret = NilValue)
    /\ UNCHANGED rejected

FactoryNew ==
    \E f \in PrivateFactories :
        /\ NewFactory(f)
        /\ last' = Put(last, f, EmptyMap)
        /\ done' = NoCall
        /\ UNCHANGED rejected
FactoryRegister ==
    \E f \in PrivateFactories, name \in PrivateNames, createFunc \in CreateFuncs :
        Register(f, name, createFunc) /\ NoteRegister(f, name, createFunc)
FactoryCreate ==
    \E f \in PrivateFactories, name \in FactoryNames :
        /\ Create(f, name, "first")
        /\ done' = Done("Create", f, name \in DOMAIN last[f])
        /\ UNCHANGED <<last, rejected>>
FactoryGetRegisteredNames ==
    \E f \in Factories :
        /\ GetRegisteredNames(f)
        /\ done' = NoCall
        /\ UNCHANGED <<last, rejected>>
DefaultRegister ==
    \E name \in FactoryNames, createFunc \in CreateFuncs :
        /\ Call(RegisterBuilder(Entry, name, createFunc))
        /\ NoteRegister(DefaultFactory, name, createFunc)
DefaultCreate ==
    \E name \in FactoryNames :
        /\ Call(CreateBuilder(Entry, name, "first"))
        /\ done' = Done("Create", DefaultFactory, name \in DOMAIN last[DefaultFactory])
        /\ UNCHANGED <<last, rejected>>

NextFactory ==
    \/ FactoryNew \/ FactoryRegister \/ FactoryCreate \/ FactoryGetRegisteredNames
    \/ DefaultRegister \/ DefaultCreate

SpecFactory == InitFactory /\ [][NextFactory]_vars

\* C11: Register returns an error and leaves every registry as it is when the
\* name is empty or the function is nil, so the empty string is never a
\* registered name; otherwise it returns nil and the name is registered.
C11_RegisterRejectsEmptyNameAndNilFunc ==
    \A f \in DOMAIN st.factory :
        /\ ~BuilderFactory_IsRegistered(st, f, "")
        /\ \A name \in FactoryNames, createFunc \in CreateFuncs :
              LET s2 == BuilderFactory_Register(Entry, f, name, createFunc)
              IN  IF name = "" \/ createFunc = NIL
                  THEN /\ s2.ret.kind = "error"
                       /\ s2.factory = st.factory
                  ELSE /\ s2.ret = NilValue
                       /\ BuilderFactory_IsRegistered(s2, f, name)

\* Register has just refused a nil function for a name that stays
\* unregistered, in a factory in which another name is registered.
C11_Witness ==
    /\ done = Done("Register", "f1", FALSE)
    /\ st.ret = ErrorValue(ErrCreateFuncNil)
    /\ DOMAIN st.factory["f1"] = {"test"}

\* C12: Create returns an error, and a nil builder with it, exactly when no
\* Register of the name has returned nil on the factory; otherwise it returns
\* a nil error and what the last function registered under the name returns
\* (a *UserBuilder from createUserBuilder, a *BaseBuilder from the closure
\* over NewBaseBuilder); it leaves every registry as it is.
C12_CreateFailsIffNeverRegistered ==
    \A f \in DOMAIN st.factory : \A name \in FactoryNames :
        LET s2 == BuilderFactory_Create(Entry, f, name, "first")
        IN  /\ s2.ret.kind = "error" <=> name \notin DOMAIN last[f]
            /\ s2.ret.kind = "error" =>
                  /\ s2.ret = ErrorValue(ErrNotRegistered(name))
                  /\ IsNilBuilder(s2, "first")
            /\ name \in DOMAIN last[f] =>
                  /\ s2.ret = NilValue
                  /\ ~IsNilBuilder(s2, "first")
                  /\ Return(s2, NoRet) = Return(Invoke(Entry, last[f][name], "first"), NoRet)
                  /\ last[f][name] = CreateUserBuilderFunc => "first" \in DOMAIN s2.ub
                  /\ last[f][name] = NewBaseBuilderFunc => "first" \in DOMAIN s2.bb
            /\ s2.factory = st.factory

\* Create has just returned a *BaseBuilder and a nil error for a registered
\* name.
C12_Witness ==
    /\ done = Done("Create", "f1", TRUE)
    /\ st.ret = NilValue
    /\ "first" \in DOMAIN st.bb

\* Create has just returned an error and a nil builder for a name that is
\* registered in another factory only.
C12_NotFound ==
    /\ done = Done("Create", "f1", FALSE)
    /\ st.ret = ErrorValue(ErrNotRegistered("user"))
    /\ IsNilBuilder(st, "first")

---------------------------------------------------------------------------
(* SpecCreate: a private factory, the builders two Create calls return, and *)
(* the calls that change them.  The caller holds a *BaseBuilder in its      *)
(* variable `shared`, which one of the functions it registers returns.      *)
(* Here `last` is, for each variable, the function that made its builder.   *)

CreatedIn == {"first", "second"}
NewInstanceFuncs == {CreateUserBuilderFunc, NewBaseBuilderFunc}

InitCreate ==
    /\ st = LET nb == NewBaseBuilder(NewBuilderFactory(NewState, "f1"), "shared")
            IN  Collect([nb.s EXCEPT !.bb = Put(@, "shared", nb.addr)])
    /\ last = <<>>
    /\ rejected = "never"
    /\ done = NoCall

CreateRegister ==
    \E createFunc \in NewInstanceFuncs \cup {SharedFunc} :
        /\ Register("f1", "test", createFunc)
        /\ UNCHANGED <<last, rejected, done>>
CreateCreate ==
    \E d \in CreatedIn :
        /\ Create("f1", "test", d)
        /\ last' = IF st'.ret = NilValue THEN Put(last, d, st.factory["f1"]["test"])
                   ELSE Restrict(last, DOMAIN last \ {d})
        /\ UNCHANGED <<rejected, done>>
CreateWithTag ==
    \E d \in CreatedIn \cup {"shared"} :
        /\ ~IsNilBuilder(st, d)
        /\ Call(BaseBuilder_WithTag(Entry, BaseOf(st, d), "env", "test"))
        /\ UNCHANGED <<last, rejected, done>>
CreateWithValidation ==
    \E d \in CreatedIn :
        /\ ~IsNilBuilder(st, d)
        /\ Call(BaseBuilder_WithValidation(Entry, BaseOf(st, d), FALSE))
        /\ UNCHANGED <<last, rejected, done>>
CreateWithName ==
    \E d \in CreatedIn : WithName(d, "Alice") /\ UNCHANGED <<last, rejected, done>>

NextCreate ==
    \/ CreateRegister \/ CreateCreate \/ CreateWithTag \/ CreateWithValidation
    \/ CreateWithName

SpecCreate == InitCreate /\ [][NextCreate]_vars

\* The objects the builder held by d is made of.
BuilderObjects(s, d) ==
    IF d \in DOMAIN s.ub THEN Objects(s, d)
    ELSE {<<"base", s.bb[d]>>, <<"map", s.base[s.bb[d]].tags>>}

\* The builder held by d as the caller can observe it.
HeldValue(s, d) ==
    IF d \in DOMAIN s.ub THEN <<BuilderValue(s, d)>>
    ELSE <<[tags |-> Entries(s, s.base[s.bb[d]].tags),
            validationEnabled |-> s.base[s.bb[d]].validationEnabled,
            errors |-> s.base[s.bb[d]].errors]>>

\* The states one mutating call on the builder held by d can end in.
AfterHeldMutation(s, d) ==
    {BaseBuilder_WithTag(s, BaseOf(s, d), "new", "value"),
     BaseBuilder_WithValidation(s, BaseOf(s, d), FALSE),
     BaseBuilder_AddError(s, BaseOf(s, d), CustomError),
     BaseBuilder_Reset(s, BaseOf(s, d))}
        \cup (IF d \in DOMAIN s.ub
              THEN {UserBuilder_WithName(s, d, "Modified"), UserBuilder_Reset(s, d),
                    UserBuilder_WithUserTag(s, d, "new", "value")}
              ELSE {})

\* The builders held by d and e are different instances that share no
\* state: no object in common, and no mutating call on one changes the other.
Unshared(s, d, e) ==
    /\ BuilderObjects(s, d) \cap BuilderObjects(s, e) = {}
    /\ \A s2 \in AfterHeldMutation(s, d) : HeldValue(Collect(s2), e) = HeldValue(s, e)
    /\ \A s2 \in AfterHeldMutation(s, e) : HeldValue(Collect(s2), d) = HeldValue(s, d)

Held(s) == DOMAIN s.ub \cup DOMAIN s.bb

\* C13 (amended): when the function registered under the name returns a new
\* builder on each call, as createUserBuilder and the closure over
\* NewBaseBuilder do, every Create returns a new instance that shares no
\* state with any builder the caller holds, and two builders that Create
\* returned for such functions share no state.
C13_CreateOfNewInstanceFuncIsUnshared ==
    /\ \A d \in CreatedIn :
          LET s2 == Collect(BuilderFactory_Create(Entry, "f1", "test", d))
          IN  /\ BuilderFactory_IsRegistered(st, "f1", "test")
              /\ st.factory["f1"]["test"] \in NewInstanceFuncs
              => \A e \in Held(s2) \ {d} : Unshared(s2, d, e)
    /\ \A d \in DOMAIN last : \A e \in DOMAIN last \ {d} :
          last[d] \in NewInstanceFuncs /\ last[e] \in NewInstanceFuncs
              => Unshared(Entry, d, e)

\* C13 as stated: after a successful Register, whatever the function, two
\* builders that Create returned are different instances that share no state.
C13_CreateIsUnshared ==
    \A d \in DOMAIN last : \A e \in DOMAIN last \ {d} : Unshared(Entry, d, e)

\* Two Create calls have returned a *BaseBuilder each from the closure over
\* NewBaseBuilder, and the first has since been given a tag.
C13_Witness ==
    /\ DOMAIN last = CreatedIn
    /\ last["first"] = NewBaseBuilderFunc
    /\ last["second"] = NewBaseBuilderFunc
    /\ HeldValue(st, "first")[1].tags # EmptyMap
    /\ HeldValue(st, "second")[1].tags = EmptyMap

---------------------------------------------------------------------------
(* Properties of SpecFactory, continued.                                    *)

\* The names of a slice that GetRegisteredNames returns, each with the number
\* of times it occurs.
Occurrences(names) ==
    [n \in {names[i] : i \in 1..Len(names)} |->
        Cardinality({i \in 1..Len(names) : names[i] = n})]

\* C14: Register of a name that is registered returns nil and replaces the
\* function: Create of the name then returns what the new function returns,
\* GetRegisteredNames has the name once (and as many names as before), and
\* the functions of the other names, in this and in every other factory, are
\* the same as before.
C14_RegisterOverwrites ==
    \A f \in DOMAIN st.factory : \A name \in DOMAIN st.factory[f] :
        \A createFunc \in CreateFuncs \ {NIL} :
            LET s2 == BuilderFactory_Register(Entry, f, name, createFunc)
                s3 == BuilderFactory_Create(s2, f, name, "first")
            IN  /\ s2.ret = NilValue
                /\ s3 = Return(Invoke(s2, createFunc, "first"), NilValue)
                /\ createFunc = CreateUserBuilderFunc <=> "first" \in DOMAIN s3.ub
                /\ createFunc = NewBaseBuilderFunc <=> "first" \in DOMAIN s3.bb
                /\ \A names \in BuilderFactory_GetRegisteredNames(s2, f) :
                      /\ Occurrences(names)[name] = 1
                      /\ Len(names) = Cardinality(DOMAIN st.factory[f])
                /\ \A n \in DOMAIN st.factory[f] \ {name} :
                      s2.factory[f][n] = st.factory[f][n]
                /\ \A g \in DOMAIN st.factory \ {f} : s2.factory[g] = st.factory[g]

\* Register has just replaced createUserBuilder under "user" in the default
\* factory, which has a second name, and Create("user") returns a
\* *BaseBuilder.
C14_Witness ==
    /\ done = Done("Register", DefaultFactory, TRUE)
    /\ st.ret = NilValue
    /\ st.factory[DefaultFactory] = [user |-> NewBaseBuilderFunc, test |-> CreateUserBuilderFunc]
    /\ "first" \in DOMAIN BuilderFactory_Create(Entry, DefaultFactory, "user", "first").bb

\* In the current state GetRegisteredNames returns, in some order and each
\* once, the names for which a Register has returned nil, and IsRegistered
\* is true of exactly those names.
NamesAreTheRegistered ==
    \A f \in DOMAIN st.factory :
        /\ \A names \in BuilderFactory_GetRegisteredNames(st, f) :
              /\ DOMAIN Occurrences(names) = DOMAIN last[f]
              /\ \A n \in DOMAIN last[f] : Occurrences(names)[n] = 1
        /\ \A n \in FactoryNames :
              BuilderFactory_IsRegistered(st, f, n) <=> n \in DOMAIN last[f]

\* A registered name is registered after the step.
StaysRegistered ==
    \A f \in DOMAIN st.factory : \A n \in FactoryNames :
        BuilderFactory_IsRegistered(st, f, n) =>
            f \in DOMAIN st'.factory /\ BuilderFactory_IsRegistered(st', f, n)

\* C15: after any sequence of Register and Create calls GetRegisteredNames
\* returns exactly the names for which a Register succeeded, each once, in an
\* order that is not specified, IsRegistered is true of exactly these names,
\* and a registered name stays registered.
C15_RegisteredNamesAreExactAndPermanent ==
    []NamesAreTheRegistered /\ [][StaysRegistered]_vars

\* GetRegisteredNames has just returned the two names of the default factory,
\* the later registered one first.
C15_Witness ==
    /\ st.ret = Ret("names", NIL, <<"test", "user">>)
    /\ DOMAIN last[DefaultFactory] = {"user", "test"}

\* RegisterBuilder and CreateBuilder act on the default factory and on no
\* other, and Register on a private factory changes no other factory.
RegistriesAreIsolated ==
    /\ BuilderFactory_IsRegistered(st, DefaultFactory, "user")
    /\ \A name \in FactoryNames :
          LET s2 == CreateBuilder(Entry, name, "first")
          IN  /\ s2 = BuilderFactory_Create(Entry, DefaultFactory, name, "first")
              /\ s2.ret.kind = "error" <=> name \notin DOMAIN last[DefaultFactory]
              /\ s2.factory = st.factory
    /\ \A name \in FactoryNames, createFunc \in CreateFuncs :
          /\ LET s2 == RegisterBuilder(Entry, name, createFunc)
             IN  /\ s2 = BuilderFactory_Register(Entry, DefaultFactory, name, createFunc)
                 /\ \A g \in DOMAIN st.factory \ {DefaultFactory} :
                       s2.factory[g] = st.factory[g]
          /\ \A f \in DOMAIN st.factory \ {DefaultFactory} :
                LET s2 == BuilderFactory_Register(Entry, f, name, createFunc)
                IN  \A g \in DOMAIN st.factory \ {f} : s2.factory[g] = st.factory[g]

\* C16 (amended): "user" is registered in the default factory from load time
\* on, and CreateBuilder("user") returns a *UserBuilder as long as no
\* RegisterBuilder has replaced the function registered under "user";
\* RegisterBuilder and CreateBuilder act on the default factory only, a
\* Register on a private factory changes neither the default factory nor
\* another private one, and a RegisterBuilder changes no private factory.
C16_DefaultFactoryHasUserUntilReplaced ==
    /\ RegistriesAreIsolated
    /\ last[DefaultFactory]["user"] = CreateUserBuilderFunc =>
          LET s2 == CreateBuilder(Entry, "user", "first")
          IN  s2.ret = NilValue /\ "first" \in DOMAIN s2.ub

\* C16 as stated: CreateBuilder("user") returns a *UserBuilder, whatever has
\* been registered since load time.
C16_DefaultFactoryCreatesUserBuilder ==
    /\ RegistriesAreIsolated
    /\ LET s2 == CreateBuilder(Entry, "user", "first")
       IN  s2.ret = NilValue /\ "first" \in DOMAIN s2.ub

\* CreateBuilder("user") has just returned a *UserBuilder, while the default
\* factory and the two private factories have three different registries.
C16_Witness ==
    /\ done = Done("Create", DefaultFactory, TRUE)
    /\ "first" \in DOMAIN st.ub
    /\ st.factory = [default |-> [user |-> CreateUserBuilderFunc, test |-> NewBaseBuilderFunc],
                     f1 |-> [test |-> CreateUserBuilderFunc],
                     f2 |-> EmptyMap]

---------------------------------------------------------------------------
(* factory.go: BuilderConfig, and examples.go: UserBuilder.ApplyConfig.  A  *)
(* configuration is named by the variable that holds it; a variable that    *)
(* holds none is a nil *BuilderConfig.  A default value (interface{}) is    *)
(* an int, a string (Str) or a bool.                                        *)

IntVal(v) == [t |-> "int", i |-> v]
BoolVal(v) == [t |-> "bool", b |-> v]

ConfigTagsHome(c) == c \o ".Tags"
ConfigDefaultsHome(c) == c \o ".DefaultValues"

BuilderConfig(validationEnabled, tags, defaultValues) ==
    [ValidationEnabled |-> validationEnabled, Tags |-> tags,
     DefaultValues |-> defaultValues]

BuilderConfigRef(c) == Ret("BuilderConfig", c, <<>>)

\* c = NewBuilderConfig()
NewBuilderConfig(s, c) ==
    LET s0 == Collect([s EXCEPT !.config = Restrict(@, DOMAIN @ \ {c})])
        t == MakeMap(s0, ConfigTagsHome(c))
        m == MakeMap(t.s, ConfigDefaultsHome(c))
    IN  Return([m.s EXCEPT !.config = Put(@, c, BuilderConfig(TRUE, t.addr, m.addr))],
               BuilderConfigRef(c))

BuilderConfig_WithValidation(s, c, enabled) ==
    Return([s EXCEPT !.config[c].ValidationEnabled = enabled], BuilderConfigRef(c))

BuilderConfig_WithTag(s, c, key, value) ==
    LET s1 == IF s.config[c].Tags = NIL
              THEN LET m == MakeMap(s, ConfigTagsHome(c))
                   IN  [m.s EXCEPT !.config[c].Tags = m.addr]
              ELSE s
    IN  Return([s1 EXCEPT !.map[s1.config[c].Tags] = Put(@, key, value)],
               BuilderConfigRef(c))

BuilderConfig_WithDefault(s, c, key, value) ==
    LET s1 == IF s.config[c].DefaultValues = NIL
              THEN LET m == MakeMap(s, ConfigDefaultsHome(c))
                   IN  [m.s EXCEPT !.config[c].DefaultValues = m.addr]
              ELSE s
    IN  Return([s1 EXCEPT !.map[s1.config[c].DefaultValues] = Put(@, key, value)],
               BuilderConfigRef(c))

ErrBuilderNil == <<"builder", "cannot", "be", "nil">>
ErrConfigNil == <<"config", "cannot", "be", "nil">>

RECURSIVE ApplyTags(_, _, _, _)
\* for key, value := range tags { b.WithTag(key, value) }, for the keys left.
ApplyTags(s, a, tags, keys) ==
    IF keys = {} THEN s
    ELSE LET key == CHOOSE k \in keys : TRUE
         IN  ApplyTags(BaseBuilder_WithTag(s, a, key, tags[key]), a, tags, keys \ {key})

\* defaults[key].(int), defaults[key].(string), defaults[key].(bool): ok, and
\* the value, which is the zero value of the type when ok is false.
TypeAssert(defaults, key, type) == key \in DOMAIN defaults /\ defaults[key].t = type
IntOf(defaults, key) == IF TypeAssert(defaults, key, "int") THEN defaults[key].i ELSE 0
StrOf(defaults, key) == IF TypeAssert(defaults, key, "str") THEN defaults[key].v ELSE ""
BoolOf(defaults, key) == IF TypeAssert(defaults, key, "bool") THEN defaults[key].b ELSE FALSE

\* The defaults part of an ApplyConfig that does not look at ok: a key with a
\* value of another type writes the zero value.
ApplyDefaults_IgnoresOk(s, r, defaults) ==
    LET s1 == IF "id" \in DOMAIN defaults
              THEN UserBuilder_WithID(s, r, IntOf(defaults, "id")) ELSE s
        s2 == IF "name" \in DOMAIN defaults
              THEN UserBuilder_WithName(s1, r, StrOf(defaults, "name")) ELSE s1
        s3 == IF "email" \in DOMAIN defaults
              THEN UserBuilder_WithEmail(s2, r, StrOf(defaults, "email")) ELSE s2
        s4 == IF "age" \in DOMAIN defaults
              THEN UserBuilder_WithAge(s3, r, IntOf(defaults, "age")) ELSE s3
    IN  IF "active" \in DOMAIN defaults
        THEN UserBuilder_WithActive(s4, r, BoolOf(defaults, "active")) ELSE s4

\* The defaults part of an ApplyConfig that leaves the age out.
ApplyDefaults_WithoutAge(s, r, defaults) ==
    LET s1 == IF TypeAssert(defaults, "id", "int")
              THEN UserBuilder_WithID(s, r, IntOf(defaults, "id")) ELSE s
        s2 == IF TypeAssert(defaults, "name", "str")
              THEN UserBuilder_WithName(s1, r, StrOf(defaults, "name")) ELSE s1
        s3 == IF TypeAssert(defaults, "email", "str")
              THEN UserBuilder_WithEmail(s2, r, StrOf(defaults, "email")) ELSE s2
    IN  IF TypeAssert(defaults, "active", "bool")
        THEN UserBuilder_WithActive(s3, r, BoolOf(defaults, "active")) ELSE s3

\* The defaults part of ApplyConfig: id, name, email, age, active, each
\* through its setter when the value has the field's type.
ApplyDefaults(s, r, defaults) ==
    LET s1 == IF TypeAssert(defaults, "id", "int")
              THEN UserBuilder_WithID(s, r, IntOf(defaults, "id")) ELSE s
        s2 == IF TypeAssert(defaults, "name", "str")
              THEN UserBuilder_WithName(s1, r, StrOf(defaults, "name")) ELSE s1
        s3 == IF TypeAssert(defaults, "email", "str")
              THEN UserBuilder_WithEmail(s2, r, StrOf(defaults, "email")) ELSE s2
        s4 == IF TypeAssert(defaults, "age", "int")
              THEN UserBuilder_WithAge(s3, r, IntOf(defaults, "age")) ELSE s3
    IN  IF TypeAssert(defaults, "active", "bool")
        THEN UserBuilder_WithActive(s4, r, BoolOf(defaults, "active")) ELSE s4

\* An ApplyConfig that writes the default values before it sets the flag:
\* the setters validate under the flag the builder had.
UserBuilder_ApplyConfig_DefaultsFirst(s, r, c) ==
    IF c \notin DOMAIN s.config THEN Return(s, ErrorValue(ErrConfigNil))
    ELSE LET cfg == s.config[c]
             s1 == IF cfg.DefaultValues # NIL
                   THEN ApplyDefaults(s, r, s.map[cfg.DefaultValues])
                   ELSE s
             s2 == BaseBuilder_WithValidation(s1, s.ub[r].base, cfg.ValidationEnabled)
             s3 == ApplyTags(s2, s.ub[r].base, Entries(s, cfg.Tags),
                             DOMAIN Entries(s, cfg.Tags))
         IN  Return(s3, NilValue)

\* An ApplyConfig that empties the configuration's default values once it
\* has applied them.
UserBuilder_ApplyConfig_ConsumesDefaults(s, r, c) ==
    IF c \notin DOMAIN s.config THEN Return(s, ErrorValue(ErrConfigNil))
    ELSE LET cfg == s.config[c]
             s1 == BaseBuilder_WithValidation(s, s.ub[r].base, cfg.ValidationEnabled)
             s2 == ApplyTags(s1, s.ub[r].base, Entries(s, cfg.Tags),
                             DOMAIN Entries(s, cfg.Tags))
             s3 == IF cfg.DefaultValues # NIL
                   THEN [ApplyDefaults(s2, r, s.map[cfg.DefaultValues])
                            EXCEPT !.map[cfg.DefaultValues] = EmptyMap]
                   ELSE s2
         IN  Return(s3, NilValue)

UserBuilder_ApplyConfig(s, r, c) ==
    IF c \notin DOMAIN s.config THEN Return(s, ErrorValue(ErrConfigNil))
    ELSE LET cfg == s.config[c]
             s1 == BaseBuilder_WithValidation(s, s.ub[r].base, cfg.ValidationEnabled)
             s2 == ApplyTags(s1, s.ub[r].base, Entries(s, cfg.Tags),
                             DOMAIN Entries(s, cfg.Tags))
             s3 == IF cfg.DefaultValues # NIL
                   THEN ApplyDefaults(s2, r, s.map[cfg.DefaultValues])
                   ELSE s2
         IN  Return(s3, NilValue)

\* reflect.ValueOf(builder).MethodByName(name).IsValid(): *BaseBuilder has
\* the method, and *UserBuilder has it by embedding *BaseBuilder.
MethodByNameIsValid(s, d, name) == name \in {"WithValidation", "WithTag"}

\* builder.(ConfigurableBuilder): only *UserBuilder has ApplyConfig.
IsConfigurableBuilder(s, d) == d \in DOMAIN s.ub

\* An ApplyTo that leaves the tags out.
BuilderConfig_ApplyTo_WithoutTags(s, c, d) ==
    IF IsNilBuilder(s, d) THEN Return(s, ErrorValue(ErrBuilderNil))
    ELSE LET cfg == s.config[c]
             s1 == IF MethodByNameIsValid(s, d, "WithValidation")
                   THEN BaseBuilder_WithValidation(s, BaseOf(s, d), cfg.ValidationEnabled)
                   ELSE s
         IN  IF IsConfigurableBuilder(s1, d) THEN UserBuilder_ApplyConfig(s1, d, c)
             ELSE Return(s1, NilValue)

\* c.ApplyTo(builder), the builder being the one held by the caller's
\* variable d.  A nil *BaseBuilder passes the test builder == nil, and the
\* first method called on it dereferences it.
\* An ApplyTo that stops after the probed WithValidation and WithTag calls
\* and never delegates to ApplyConfig.
BuilderConfig_ApplyTo_WithoutDelegation(s, c, d) ==
    IF IsNilBuilder(s, d) THEN Return(s, ErrorValue(ErrBuilderNil))
    ELSE IF IsNilPointer(s, d) /\ MethodByNameIsValid(s, d, "WithValidation")
    THEN Return(s, Panic(ErrNilPointer))
    ELSE LET cfg == s.config[c]
             s1 == IF MethodByNameIsValid(s, d, "WithValidation")
                   THEN BaseBuilder_WithValidation(s, BaseOf(s, d), cfg.ValidationEnabled)
                   ELSE s
             s2 == IF cfg.Tags # NIL /\ MethodByNameIsValid(s, d, "WithTag")
                   THEN ApplyTags(s1, BaseOf(s, d), s.map[cfg.Tags], DOMAIN s.map[cfg.Tags])
                   ELSE s1
         IN  Return(s2, NilValue)

BuilderConfig_ApplyTo(s, c, d) ==
    IF IsNilBuilder(s, d) THEN Return(s, ErrorValue(ErrBuilderNil))
    ELSE IF IsNilPointer(s, d) /\ MethodByNameIsValid(s, d, "WithValidation")
    THEN \* method.Call runs WithValidation, which writes through the nil pointer
         Return(s, Panic(ErrNilPointer))
    ELSE LET cfg == s.config[c]
             s1 == IF MethodByNameIsValid(s, d, "WithValidation")
                   THEN BaseBuilder_WithValidation(s, BaseOf(s, d), cfg.ValidationEnabled)
                   ELSE s
             s2 == IF cfg.Tags # NIL /\ MethodByNameIsValid(s, d, "WithTag")
                   THEN ApplyTags(s1, BaseOf(s, d), s.map[cfg.Tags], DOMAIN s.map[cfg.Tags])
                   ELSE s1
         IN  IF IsConfigurableBuilder(s2, d) THEN UserBuilder_ApplyConfig(s2, d, c)
             ELSE Return(s2, NilValue)

---------------------------------------------------------------------------
(* SpecConfig: a configuration that the caller sets up and then applies to  *)
(* a *UserBuilder (variable orig), to a *BaseBuilder (variable base) and to *)
(* a nil builder.                                                           *)

DefaultInputs ==
    {<<"id", IntVal(456)>>, <<"name", Str("Config Name")>>,
     <<"email", Str("config@example.com")>>, <<"email", Str("")>>,
     <<"age", IntVal(25)>>, <<"age", Str("old")>>, <<"active", BoolVal(TRUE)>>,
     <<"nickname", Str("cn")>>}

\* The builder held by r is as NewUserBuilder left it.
FreshUserBuilder(s, r) ==
    BuilderValue(s, r) = BuilderValue(NewUserBuilder(NewState, r), r)

InitConfig ==
    /\ st = LET s1 == NewUserBuilder(NewState, "orig")
                nb == NewBaseBuilder(s1, "base")
                s2 == [nb.s EXCEPT !.bb = Put(@, "base", nb.addr)]
            IN  Collect(Return(NewBuilderConfig(s2, "config"), NoRet))
    /\ last = NoneSet
    /\ rejected = "never"
    /\ done = NoCall

\* The caller sets the configuration up before it applies it.
SettingUp == done = NoCall

ConfigWithValidation ==
    \E e \in BOOLEAN :
        /\ SettingUp
        /\ Call(BuilderConfig_WithValidation(Entry, "config", e))
        /\ UNCHANGED <<last, rejected, done>>
ConfigWithTag ==
    /\ SettingUp
    /\ Call(BuilderConfig_WithTag(Entry, "config", "env", "test"))
    /\ UNCHANGED <<last, rejected, done>>
ConfigWithDefault ==
    \E kv \in DefaultInputs :
        /\ SettingUp
        /\ Call(BuilderConfig_WithDefault(Entry, "config", kv[1], kv[2]))
        /\ UNCHANGED <<last, rejected, done>>
ConfigWithAge ==
    /\ SettingUp
    /\ WithAge("orig", 30)
    /\ UNCHANGED <<last, rejected, done>>
ConfigApplyTo ==
    \E d \in {"orig", "base", "nobuilder"} :
        /\ Call(BuilderConfig_ApplyTo(Entry, "config", d))
        /\ done' = Done("ApplyTo", d, d = "orig" /\ FreshUserBuilder(st, d))
        /\ UNCHANGED <<last, rejected>>
ConfigApplyConfig ==
    \E c \in {"config", "noconfig"} :
        /\ Call(UserBuilder_ApplyConfig(Entry, "orig", c))
        /\ done' = Done("ApplyConfig", c, FALSE)
        /\ UNCHANGED <<last, rejected>>
ConfigBuild ==
    /\ ~SettingUp
    /\ Build("orig")
    /\ UNCHANGED <<last, rejected, done>>

NextConfig ==
    \/ ConfigWithValidation \/ ConfigWithTag \/ ConfigWithDefault \/ ConfigWithAge
    \/ ConfigApplyTo \/ ConfigApplyConfig \/ ConfigBuild

SpecConfig == InitConfig /\ [][NextConfig]_vars

\* The configuration held by c as the caller can observe it.
ConfigValue(s, c) ==
    [ValidationEnabled |-> s.config[c].ValidationEnabled,
     Tags |-> Entries(s, s.config[c].Tags),
     DefaultValues |-> Entries(s, s.config[c].DefaultValues)]

\* C17: ApplyTo(nil) returns an error and changes nothing; ApplyTo on a
\* *BaseBuilder returns nil, with the builder's validation flag set to the
\* configuration's and every tag of the configuration set on the builder;
\* the default values have no effect: the builder's errors and its other
\* tags are as before, and so is the *UserBuilder.
C17_ApplyToNilFailsAndBaseBuilderGetsFlagAndTags ==
    /\ LET s2 == BuilderConfig_ApplyTo(Entry, "config", "nobuilder")
       IN  /\ s2.ret = ErrorValue(ErrBuilderNil)
           /\ Return(s2, NoRet) = Entry
    /\ LET s2 == Collect(BuilderConfig_ApplyTo(Entry, "config", "base"))
           cfg == ConfigValue(st, "config")
           old == HeldValue(st, "base")[1]
           new == HeldValue(s2, "base")[1]
       IN  /\ s2.ret = NilValue
           /\ new.validationEnabled = cfg.ValidationEnabled
           /\ DOMAIN new.tags = DOMAIN old.tags \cup DOMAIN cfg.Tags
           /\ \A k \in DOMAIN cfg.Tags : new.tags[k] = cfg.Tags[k]
           /\ \A k \in DOMAIN old.tags \ DOMAIN cfg.Tags : new.tags[k] = old.tags[k]
           /\ new.errors = old.errors
           /\ BuilderValue(s2, "orig") = BuilderValue(st, "orig")

\* ApplyTo has just returned nil for the *BaseBuilder, which has the flag and
\* the tag of a configuration that has default values too.
C17_Witness ==
    /\ done = Done("ApplyTo", "base", FALSE)
    /\ st.ret = NilValue
    /\ ~HeldValue(st, "base")[1].validationEnabled
    /\ HeldValue(st, "base")[1].tags = [env |-> "test"]
    /\ "age" \in DOMAIN ConfigValue(st, "config").DefaultValues
    /\ "name" \in DOMAIN ConfigValue(st, "config").DefaultValues

\* ApplyTo has just returned the error for a nil builder.
C17_NilBuilder ==
    /\ done = Done("ApplyTo", "nobuilder", FALSE)
    /\ st.ret = ErrorValue(ErrBuilderNil)

\* The setter of a validated field takes the value v: validation is off, or
\* the value is one the setter accepts.
Accepted(cfg, ok) == ~cfg.ValidationEnabled \/ ok

\* Build on the builder held by r returns a TestUser of the given age.
BuildsUserOfAge(s, r, age) ==
    /\ BuildKind(s, r) = "TestUser"
    /\ BuiltUser(s, r).Age = age

\* C18: ApplyTo on a *UserBuilder returns nil and leaves the builder as
\* ApplyConfig alone leaves it; each of the defaults id, name, email, age and
\* active that has the field's type is written through its setter (the
\* field has the value when the setter accepts it, and the setter's error is
\* appended when it does not).  With the default age 25 applied to a builder
\* that is as NewUserBuilder left it, the user under construction has age
\* 25, and Build returns a TestUser of age 25 when the builder has no error
\* and either validation is disabled or the name and the email are set.
C18_ApplyToUserBuilderWritesDefaults ==
    LET s2 == Collect(BuilderConfig_ApplyTo(Entry, "config", "orig"))
        cfg == ConfigValue(st, "config")
        dv == cfg.DefaultValues
        old == BuilderValue(st, "orig")
        new == BuilderValue(s2, "orig")
    IN  /\ s2.ret = NilValue
        /\ new = BuilderValue(Collect(UserBuilder_ApplyConfig(Entry, "orig", "config")),
                              "orig")
        /\ TypeAssert(dv, "id", "int") /\ Accepted(cfg, dv["id"].i >= 0)
              => new.user.ID = dv["id"].i
        /\ TypeAssert(dv, "name", "str") /\ Accepted(cfg, dv["name"].v # "")
              => new.user.Name = dv["name"].v
        /\ TypeAssert(dv, "email", "str") /\ Accepted(cfg, dv["email"].v # "")
              => new.user.Email = dv["email"].v
        /\ TypeAssert(dv, "email", "str") /\ ~Accepted(cfg, dv["email"].v # "")
              => /\ new.user.Email = old.user.Email
                 /\ new.errors = Append(old.errors, ErrEmailEmpty)
        /\ TypeAssert(dv, "age", "int") /\ Accepted(cfg, dv["age"].i >= 0)
              => new.user.Age = dv["age"].i
        /\ TypeAssert(dv, "active", "bool") => new.user.Active = dv["active"].b
        /\ TypeAssert(dv, "age", "int") /\ dv["age"].i = 25 /\ FreshUserBuilder(st, "orig")
              => /\ new.user.Age = 25
                 /\ (/\ new.errors = <<>>
                     /\ \/ ~cfg.ValidationEnabled
                        \/ new.user.Name # "" /\ new.user.Email # "")
                       => BuildsUserOfAge(s2, "orig", 25)

\* C18 as stated: with the default age 25 applied to a builder that is as
\* NewUserBuilder left it, Build returns a TestUser of age 25.
C18_BuildAfterApplyToHasAge25 ==
    LET s2 == Collect(BuilderConfig_ApplyTo(Entry, "config", "orig"))
        dv == ConfigValue(st, "config").DefaultValues
    IN  TypeAssert(dv, "age", "int") /\ dv["age"].i = 25 /\ FreshUserBuilder(st, "orig")
           => BuildsUserOfAge(s2, "orig", 25)

\* A configuration with the default age 25 has been applied to a builder
\* that was as NewUserBuilder left it, and Build has returned a TestUser of
\* age 25.
C18_Witness ==
    /\ done = Done("ApplyTo", "orig", TRUE)
    /\ TypeAssert(ConfigValue(st, "config").DefaultValues, "age", "int")
    /\ IntOf(ConfigValue(st, "config").DefaultValues, "age") = 25
    /\ st.ret.kind = "TestUser"
    /\ UserValue(st, st.ret.ref).Age = 25

\* The same configuration without a name: Build has returned an error.
C18_BuildFails ==
    /\ done = Done("ApplyTo", "orig", TRUE)
    /\ ConfigValue(st, "config").DefaultValues = [age |-> IntVal(25)]
    /\ st.ret = ErrorValue(ErrNameRequired)

\* The fields ApplyConfig has a default for, and values of the other types.
DefaultKeys == {"id", "name", "email", "age", "active"}
FieldType(k) ==
    CASE k \in {"id", "age"} -> "int"
      [] k \in {"name", "email"} -> "str"
      [] k = "active" -> "bool"
      [] OTHER -> "none"
DefaultSamples == {IntVal(7), Str("seven"), BoolVal(TRUE)}
Mismatched(k) == {w \in DefaultSamples : w.t # FieldType(k)}

\* The field of the user under construction that the default k is for.
FieldOf(value, k) ==
    CASE k = "id" -> <<value.user.ID>>
      [] k = "name" -> <<value.user.Name>>
      [] k = "email" -> <<value.user.Email>>
      [] k = "age" -> <<value.user.Age>>
      [] k = "active" -> <<value.user.Active>>
      [] OTHER -> <<>>

\* State s with the default k taken out of the configuration held by c.
WithoutDefault(s, c, k) ==
    LET t == s.config[c].DefaultValues
    IN  IF t = NIL THEN s
        ELSE [s EXCEPT !.map[t] = [j \in DOMAIN @ \ {k} |-> @[j]]]

\* ApplyConfig, in state s, skips the default k of the configuration: it
\* returns nil, the field is as before, and the builder is as it is after
\* ApplyConfig of the same configuration without that default.
Skips(s, k) ==
    LET s2 == Collect(UserBuilder_ApplyConfig(s, "orig", "config"))
        s0 == Collect(UserBuilder_ApplyConfig(WithoutDefault(s, "config", k),
                                              "orig", "config"))
    IN  /\ s2.ret = NilValue
        /\ FieldOf(BuilderValue(s2, "orig"), k) = FieldOf(BuilderValue(s, "orig"), k)
        /\ BuilderValue(s2, "orig") = BuilderValue(s0, "orig")

\* The errors ApplyConfig appends in state s: those of the setters that
\* reject a value of the field's type.
SetterErrors(s) ==
    LET cfg == ConfigValue(s, "config")
    IN  IF /\ cfg.ValidationEnabled
           /\ TypeAssert(cfg.DefaultValues, "email", "str")
           /\ StrOf(cfg.DefaultValues, "email") = ""
        THEN <<ErrEmailEmpty>> ELSE <<>>

\* C19: ApplyConfig skips a default whose key is unknown or whose value is
\* not of the field's type, those the configuration has and any that
\* WithDefault could put there: the field keeps its value, the call returns
\* nil and appends no error (the errors appended are those of setters that
\* reject a value of the right type).  ApplyConfig returns an error for a
\* nil configuration only, and changes nothing then.
C19_ApplyConfigSkipsUnknownAndMismatchedDefaults ==
    /\ \A k \in DOMAIN ConfigValue(st, "config").DefaultValues :
          ~TypeAssert(ConfigValue(st, "config").DefaultValues, k, FieldType(k))
             => Skips(Entry, k)
    /\ \A k \in DefaultKeys \cup {"nickname"} : \A w \in Mismatched(k) :
          LET s1 == BuilderConfig_WithDefault(Entry, "config", k, w)
              s2 == UserBuilder_ApplyConfig(s1, "orig", "config")
          IN  /\ Skips(s1, k)
              /\ BuilderValue(s2, "orig").errors
                    = BuilderValue(st, "orig").errors \o SetterErrors(s1)
    /\ UserBuilder_ApplyConfig(Entry, "orig", "config").ret = NilValue
    /\ LET s2 == UserBuilder_ApplyConfig(Entry, "orig", "noconfig")
       IN  /\ s2.ret = ErrorValue(ErrConfigNil)
           /\ Return(s2, NoRet) = Entry

\* ApplyConfig has just returned nil for a configuration with an age that is
\* not an int and a key that is no field: the builder has the age it had,
\* and no error.
C19_Witness ==
    /\ done = Done("ApplyConfig", "config", FALSE)
    /\ st.ret = NilValue
    /\ {"age", "nickname"} \subseteq DOMAIN ConfigValue(st, "config").DefaultValues
    /\ ConfigValue(st, "config").DefaultValues["age"] = Str("old")
    /\ BuilderValue(st, "orig").user.Age = 30
    /\ BuilderValue(st, "orig").errors = <<>>

\* ApplyConfig has just returned the error for a nil configuration.
C19_NilConfig ==
    /\ done = Done("ApplyConfig", "noconfig", FALSE)
    /\ st.ret = ErrorValue(ErrConfigNil)

\* The setter of the field k accepts the default the configuration has for
\* it: the value has the field's type, and validation is off or the value
\* passes the setter's check.
DefaultAccepted(cfg, k) ==
    /\ TypeAssert(cfg.DefaultValues, k, FieldType(k))
    /\ \/ ~cfg.ValidationEnabled
       \/ CASE FieldType(k) = "int" -> IntOf(cfg.DefaultValues, k) >= 0
            [] FieldType(k) = "str" -> StrOf(cfg.DefaultValues, k) # ""
            [] OTHER -> TRUE

\* The builder value has the configuration's flag and each of its tags.
HasFlagAndTags(value, cfg) ==
    /\ value.validationEnabled = cfg.ValidationEnabled
    /\ \A k \in DOMAIN cfg.Tags : k \in DOMAIN value.tags /\ value.tags[k] = cfg.Tags[k]

\* C20: ApplyTo, on a *UserBuilder, on a *BaseBuilder and on nil, and
\* ApplyConfig leave the configuration as it is: the same flag, the same
\* maps with the same tags and default values.  The configuration applied to
\* the *UserBuilder, to a second, new *UserBuilder and to the *BaseBuilder
\* gives each the flag and the tags, and the two *UserBuilders the same
\* value in every field whose default the setter accepts.
C20_ApplyingLeavesTheConfigurationUnchanged ==
    /\ \A d \in {"orig", "base", "nobuilder"} :
          LET s2 == BuilderConfig_ApplyTo(Entry, "config", d)
          IN  /\ s2.config = st.config
              /\ ConfigValue(s2, "config") = ConfigValue(st, "config")
    /\ LET s2 == UserBuilder_ApplyConfig(Entry, "orig", "config")
       IN  /\ s2.config = st.config
           /\ ConfigValue(s2, "config") = ConfigValue(st, "config")
    /\ LET cfg == ConfigValue(st, "config")
           s1 == BuilderConfig_ApplyTo(Entry, "config", "orig")
           s2 == BuilderConfig_ApplyTo(NewUserBuilder(s1, "clone"), "config", "clone")
           s3 == BuilderConfig_ApplyTo(s2, "config", "base")
       IN  /\ ConfigValue(s3, "config") = cfg
           /\ HasFlagAndTags(BuilderValue(s3, "orig"), cfg)
           /\ HasFlagAndTags(BuilderValue(s3, "clone"), cfg)
           /\ HasFlagAndTags(HeldValue(s3, "base")[1], cfg)
           /\ \A k \in DefaultKeys :
                 DefaultAccepted(cfg, k)
                    => FieldOf(BuilderValue(s3, "orig"), k)
                          = FieldOf(BuilderValue(s3, "clone"), k)

\* The configuration has been applied to the *UserBuilder and then to the
\* *BaseBuilder: both have its tag, the user has its age, and the
\* configuration still has the tag and the default values.
C20_Witness ==
    /\ done = Done("ApplyTo", "base", FALSE)
    /\ st.ret = NilValue
    /\ BuilderValue(st, "orig").tags = [env |-> "test"]
    /\ HeldValue(st, "base")[1].tags = [env |-> "test"]
    /\ BuilderValue(st, "orig").user.Age = 25
    /\ ConfigValue(st, "config").Tags = [env |-> "test"]
    /\ ConfigValue(st, "config").DefaultValues
          = [age |-> IntVal(25), name |-> Str("Config Name")]

---------------------------------------------------------------------------
(* SpecBase: a *BaseBuilder made by NewBaseBuilder, held by the caller's    *)
(* variable `base`, and its clone, held by `clone`, under the public        *)
(* operations of BaseBuilder.                                               *)

BaseVars == {"base", "clone"}
BaseErrors == {NilError, CustomError, ErrAgeNegative}

HasBase(d) == d \in DOMAIN st.bb

\* d = r.Clone() for the *BaseBuilder held by r.
CloneBase(s, r, d) ==
    LET s1 == BaseBuilder_Clone(UnbindVar(s, d), s.bb[r], d)
    IN  [s1 EXCEPT !.bb = Put(@, d, s1.ret.ref)]

InitBase ==
    /\ st = LET nb == NewBaseBuilder(NewState, "base")
            IN  Collect([nb.s EXCEPT !.bb = Put(@, "base", nb.addr)])
    /\ last = NoneSet
    /\ rejected = "never"
    /\ done = NoCall

NoteBase(op, d) == done' = Done(op, d, FALSE) /\ UNCHANGED <<last, rejected>>

BaseWithTag(d) ==
    /\ HasBase(d)
    /\ Call(BaseBuilder_WithTag(Entry, st.bb[d], "env", "test"))
    /\ NoteBase("WithTag", d)
BaseWithValidation(d) ==
    \E e \in BOOLEAN :
        /\ HasBase(d)
        /\ Call(BaseBuilder_WithValidation(Entry, st.bb[d], e))
        /\ NoteBase("WithValidation", d)
BaseAddError(d) ==
    \E e \in BaseErrors :
        /\ HasBase(d)
        /\ Call(BaseBuilder_AddError(Entry, st.bb[d], e))
        /\ NoteBase("AddError", d)
BaseClearErrors(d) ==
    /\ HasBase(d)
    /\ Call(BaseBuilder_ClearErrors(Entry, st.bb[d]))
    /\ NoteBase("ClearErrors", d)
BaseReset(d) ==
    /\ HasBase(d)
    /\ Call(BaseBuilder_Reset(Entry, st.bb[d]))
    /\ NoteBase("Reset", d)
BaseBuild(d) ==
    /\ HasBase(d)
    /\ Call(BaseBuilder_Build(Entry, st.bb[d]))
    /\ NoteBase("Build", d)
BaseClone ==
    /\ Call(CloneBase(Entry, "base", "clone"))
    /\ NoteBase("Clone", "clone")

NextBase ==
    \/ \E d \in BaseVars : BaseWithTag(d)
    \/ \E d \in BaseVars : BaseWithValidation(d)
    \/ \E d \in BaseVars : BaseAddError(d)
    \/ \E d \in BaseVars : BaseClearErrors(d)
    \/ \E d \in BaseVars : BaseReset(d)
    \/ \E d \in BaseVars : BaseBuild(d)
    \/ BaseClone

SpecBase == InitBase /\ [][NextBase]_vars

\* The struct at address a has its two containers: a tag map that exists and
\* an error slice that is not nil.
ContainersPresent(s, a) ==
    /\ s.base[a].tags # NIL
    /\ s.base[a].tags \in DOMAIN s.map
    /\ ~s.base[a].errorsNil

\* C21: in every state the public operations reach from NewBaseBuilder, the
\* builder and its clone have a tag map and an error slice that are not nil;
\* a new builder and a builder on which Reset was just called have empty
\* containers and validation enabled; and WithTag on a builder whose tag map
\* is nil makes the map and puts the tag in it.
C21_ContainersAreNeverNil ==
    /\ \A d \in DOMAIN st.bb : ContainersPresent(st, st.bb[d])
    /\ LET nb == NewBaseBuilder(Entry, "b1")
       IN  /\ ContainersPresent(nb.s, nb.addr)
           /\ nb.s.base[nb.addr].validationEnabled
           /\ nb.s.base[nb.addr].errors = <<>>
           /\ nb.s.map[nb.s.base[nb.addr].tags] = EmptyMap
    /\ \A d \in DOMAIN st.bb :
          LET a == st.bb[d]
              s2 == BaseBuilder_Reset(Entry, a)
          IN  /\ ContainersPresent(s2, a)
              /\ s2.base[a].validationEnabled
              /\ s2.base[a].errors = <<>>
              /\ s2.map[s2.base[a].tags] = EmptyMap
    /\ done.op = "Reset" => st.base[st.bb[done.on]].validationEnabled
    /\ done.op = "Clone" => ContainersPresent(st, st.bb["clone"])
    /\ \A d \in DOMAIN st.bb :
          LET a == st.bb[d]
              s0 == Collect([Entry EXCEPT !.base[a].tags = NIL])
              s2 == BaseBuilder_WithTag(s0, a, "key", "value")
          IN  /\ BaseBuilder_GetTag(s0, a, "key") = ""
              /\ ~BaseBuilder_HasTag(s0, a, "key")
              /\ ContainersPresent(s2, a)
              /\ s2.map[s2.base[a].tags] = [key |-> "value"]

\* The clone of a builder that had a tag and an error has had its errors
\* cleared, and the builder has been reset since.
C21_Witness ==
    /\ done = Done("Reset", "base", FALSE)
    /\ HasBase("clone")
    /\ HeldValue(st, "clone")[1].tags = [env |-> "test"]
    /\ HeldValue(st, "clone")[1].errors = <<>>
    /\ ~HeldValue(st, "clone")[1].validationEnabled
    /\ HeldValue(st, "base")[1].tags = EmptyMap
    /\ HeldValue(st, "base")[1].validationEnabled

\* The error list of the *BaseBuilder held by d.
ErrorsOf(s, d) == BaseBuilder_GetErrors(s, s.bb[d])

\* One call of each operation on the *BaseBuilder at address a, state s: what
\* it does to the error list.
ErrorsUnderOperations(s, a) ==
    LET old == BaseBuilder_GetErrors(s, a)
    IN  /\ \A e \in BaseErrors \ {NilError} :
              BaseBuilder_GetErrors(BaseBuilder_AddError(s, a, e), a) = Append(old, e)
        /\ Return(BaseBuilder_AddError(s, a, NilError), NoRet) = s
        /\ BaseBuilder_GetErrors(BaseBuilder_ClearErrors(s, a), a) = <<>>
        /\ BaseBuilder_GetErrors(BaseBuilder_Reset(s, a), a) = <<>>
        /\ BaseBuilder_GetErrors(BaseBuilder_WithTag(s, a, "env", "test"), a) = old
        /\ \A e \in BOOLEAN :
              BaseBuilder_GetErrors(BaseBuilder_WithValidation(s, a, e), a) = old
        /\ BaseBuilder_GetErrors(BaseBuilder_Build(s, a), a) = old
        /\ BaseBuilder_GetErrors(BaseBuilder_Clone(s, a, "b1"), a) = old
        /\ BaseBuilder_HasErrors(s, a) <=> old # <<>>

\* A step changes the error list of the builder held by d only by appending
\* one error to it in AddError, or by emptying it in ClearErrors or Reset
\* (or d is assigned another builder, the new clone).
ErrorsStep(d) ==
    ErrorsOf(st', d) # ErrorsOf(st, d) =>
        /\ done'.on = d
        /\ \/ /\ done'.op = "AddError"
              /\ \E e \in BaseErrors \ {NilError} :
                    ErrorsOf(st', d) = Append(ErrorsOf(st, d), e)
           \/ /\ done'.op \in {"ClearErrors", "Reset"}
              /\ ErrorsOf(st', d) = <<>>
           \/ /\ done'.op = "Clone"
              /\ ErrorsOf(st', d) = ErrorsOf(st, "base")

\* C22: AddError with an error appends it at the end of the list and keeps
\* the earlier errors in their order, AddError(nil) changes nothing,
\* ClearErrors and Reset empty the list, no other operation changes it, and
\* HasErrors is true exactly when the list is not empty; from one state to
\* the next the list of a builder changes in no other way.
C22_ErrorsAreAppendOnlyUntilCleared ==
    /\ [](\A d \in DOMAIN st.bb : ErrorsUnderOperations(Entry, st.bb[d]))
    /\ [][\A d \in DOMAIN st.bb : ErrorsStep(d)]_vars

\* AddError has just appended a second, different error.
C22_Witness ==
    /\ done = Done("AddError", "base", FALSE)
    /\ ErrorsOf(st, "base") = <<CustomError, ErrAgeNegative>>
    /\ BaseBuilder_HasErrors(st, st.bb["base"])

---------------------------------------------------------------------------
(* SpecFaults: the calls with arguments that are absent or invalid.  The    *)
(* caller has a factory f1, a configuration whose defaults the setters      *)
(* reject, a *UserBuilder (variable orig), a variable nilbase that holds a  *)
(* nil *BaseBuilder, and the variable made for what Create returns.         *)

FaultFuncs == {NIL, CreateUserBuilderFunc, NewBaseBuilderFunc, NilFunc}
FaultBuilders == {"orig", "nilbase", "made", "nobuilder"}

InitFaults ==
    /\ st = LET s1 == NewUserBuilder(NewBuilderFactory(NewState, "f1"), "orig")
                s2 == [s1 EXCEPT !.bb = Put(@, "nilbase", NIL)]
                s3 == NewBuilderConfig(s2, "config")
                s4 == BuilderConfig_WithDefault(s3, "config", "id", IntVal(-1))
                s5 == BuilderConfig_WithDefault(s4, "config", "name", Str(""))
            IN  Collect(Return(s5, NoRet))
    /\ last = NoneSet
    /\ rejected = "never"
    /\ done = NoCall

FaultsRegister ==
    \E name \in {"", "test"}, createFunc \in FaultFuncs :
        /\ Register("f1", name, createFunc)
        /\ NoteBase("Register", name)
FaultsCreate ==
    \E name \in {"test", "missing"} :
        /\ Create("f1", name, "made")
        /\ NoteBase("Create", name)
FaultsApplyTo ==
    \E d \in FaultBuilders :
        /\ Call(BuilderConfig_ApplyTo(Entry, "config", d))
        /\ NoteBase("ApplyTo", d)
FaultsApplyConfig ==
    \E c \in {"config", "noconfig"} :
        /\ Call(UserBuilder_ApplyConfig(Entry, "orig", c))
        /\ NoteBase("ApplyConfig", c)
FaultsSetter ==
    /\ \/ WithID("orig", -1)
       \/ WithName("orig", "")
       \/ WithEmail("orig", "")
       \/ WithAge("orig", -1)
    /\ NoteBase("setter", "orig")
FaultsClearErrors ==
    /\ ClearErrors("orig")
    /\ NoteBase("ClearErrors", "orig")
FaultsBuild ==
    /\ Build("orig")
    /\ NoteBase("Build", "orig")

NextFaults ==
    \/ FaultsRegister \/ FaultsCreate \/ FaultsApplyTo \/ FaultsApplyConfig
    \/ FaultsSetter \/ FaultsClearErrors \/ FaultsBuild

SpecFaults == InitFaults /\ [][NextFaults]_vars

\* The variable d holds a builder that can be used: not nil, and not a nil
\* pointer.
Usable(s, d) == ~IsNilBuilder(s, d) /\ ~IsNilPointer(s, d)

\* C23: no call ends in a panic, and a Create that returns no error returns
\* a builder that can be used.
C23_FailuresAreErrorValuesNotPanics ==
    /\ st.ret.kind # "panic"
    /\ done.op = "Create" /\ st.ret.kind # "error" => Usable(st, "made")

\* What holds of the failures: Register with an empty name or a nil function,
\* Create of a name that is not registered, ApplyTo on a nil Builder and
\* ApplyConfig with a nil configuration return an error; no setter, Build,
\* Register, Create or ApplyConfig panics; the only panic is that of ApplyTo
\* on a builder that is a nil pointer.
C23_FailuresOfAbsentArguments ==
    /\ \A createFunc \in FaultFuncs :
          BuilderFactory_Register(Entry, "f1", "", createFunc).ret.kind = "error"
    /\ BuilderFactory_Register(Entry, "f1", "test", NIL).ret.kind = "error"
    /\ BuilderFactory_Create(Entry, "f1", "missing", "made").ret.kind = "error"
    /\ BuilderConfig_ApplyTo(Entry, "config", "nobuilder").ret.kind = "error"
    /\ UserBuilder_ApplyConfig(Entry, "orig", "noconfig").ret.kind = "error"
    /\ st.ret.kind = "panic" => done.op = "ApplyTo" /\ IsNilPointer(st, done.on)

\* ApplyTo on the variable that holds a nil *BaseBuilder has panicked.
C23_NilPointerPanics ==
    /\ done = Done("ApplyTo", "nilbase", FALSE)
    /\ st.ret = Panic(ErrNilPointer)

\* Create of a name registered with a function that returns nil has returned
\* no error and no builder.
C23_CreateReturnsNilBuilder ==
    /\ done = Done("Create", "test", FALSE)
    /\ st.ret.kind # "error"
    /\ st.factory["f1"]["test"] = NilFunc
    /\ IsNilBuilder(st, "made")

---------------------------------------------------------------------------
(* SpecShared: a *UserBuilder (variable orig) under its setters and the     *)
(* operations promoted from the embedded *BaseBuilder, and Build, Reset and *)
(* Clone called on the value that the last call returned (a chained call).  *)
(* WithTag, WithValidation, AddError and ClearErrors are methods of         *)
(* *BaseBuilder and return a *BaseBuilder: the method a chained call runs   *)
(* is the one of the type of the value it is called on.                     *)

\* v.Build(), v.Reset() and d = v.Clone() for a returned builder v.
Returned_Build(s, v) ==
    IF v.kind = "UserBuilder" THEN UserBuilder_Build(s, v.ref)
    ELSE BaseBuilder_Build(s, v.ref)
Returned_Reset(s, v) ==
    IF v.kind = "UserBuilder" THEN UserBuilder_Reset(s, v.ref)
    ELSE BaseBuilder_Reset(s, v.ref)
Returned_Clone(s, v, d) ==
    IF v.kind = "UserBuilder" THEN UserBuilder_Clone(s, v.ref, d)
    ELSE LET s1 == BaseBuilder_Clone(UnbindVar(s, d), v.ref, d)
         IN  [s1 EXCEPT !.bb = Put(@, d, s1.ret.ref)]

\* The last call returned a builder.
ReturnedBuilder == st.ret.kind \in {"UserBuilder", "BaseBuilder"}

SharedOps == {"WithTag", "WithValidation", "AddError", "ClearErrors"}

\* The caller's flow ends with the clone: it makes no call after it.
Cloned == ~IsNilBuilder(st, "clone")

SharedWithName ==
    ~Cloned /\ WithName("orig", "Alice") /\ NoteBase("WithName", "orig")
SharedWithEmail ==
    ~Cloned /\ WithEmail("orig", "alice@x.com") /\ NoteBase("WithEmail", "orig")
SharedWithTag ==
    ~Cloned /\ WithTag("orig", "env", "test") /\ NoteBase("WithTag", "orig")
SharedWithValidation ==
    \E e \in BOOLEAN :
        ~Cloned /\ WithValidation("orig", e) /\ NoteBase("WithValidation", "orig")
SharedAddError ==
    ~Cloned /\ AddError("orig", CustomError) /\ NoteBase("AddError", "orig")
SharedClearErrors ==
    ~Cloned /\ ClearErrors("orig") /\ NoteBase("ClearErrors", "orig")
ChainedBuild ==
    /\ ReturnedBuilder
    /\ Call(Returned_Build(Entry, st.ret))
    /\ NoteBase("Build", st.ret.kind)
ChainedReset ==
    /\ ReturnedBuilder
    /\ Call(Returned_Reset(Entry, st.ret))
    /\ NoteBase("Reset", st.ret.kind)
ChainedClone ==
    /\ ReturnedBuilder
    /\ st.ret.ref # "clone"
    /\ Call(Return(Returned_Clone(Entry, st.ret, "clone"), NoRet))
    /\ NoteBase("Clone", st.ret.kind)

NextShared ==
    \/ SharedWithName \/ SharedWithEmail \/ SharedWithTag \/ SharedWithValidation
    \/ SharedAddError \/ SharedClearErrors
    \/ ChainedBuild \/ ChainedReset \/ ChainedClone

SpecShared == Init /\ [][NextShared]_vars

\* The states in which one of the shared operations has just returned, called
\* on the *UserBuilder held by orig in state s.
AfterSharedOperation(s) ==
    LET a == s.ub["orig"].base
    IN  {BaseBuilder_WithTag(s, a, "env", "test"),
         BaseBuilder_WithValidation(s, a, FALSE),
         BaseBuilder_AddError(s, a, CustomError),
         BaseBuilder_ClearErrors(s, a)}

\* C24: Build, Reset and Clone called on the value that WithTag,
\* WithValidation, AddError or ClearErrors returned for a *UserBuilder have
\* the result of Build, Reset and Clone called on the *UserBuilder: the same
\* user or error, the same builder after Reset, an equal clone.
C24_ChainedCallsActOnTheUserBuilder ==
    ~Cloned =>
        \A s1 \in AfterSharedOperation(Entry) :
            /\ RetValue(Returned_Build(s1, s1.ret)) = RetValue(UserBuilder_Build(s1, "orig"))
            /\ BuilderValue(Returned_Reset(s1, s1.ret), "orig")
                  = BuilderValue(UserBuilder_Reset(s1, "orig"), "orig")
            /\ HeldValue(Returned_Clone(s1, s1.ret, "clone"), "clone")
                  = HeldValue(UserBuilder_Clone(s1, "orig", "clone"), "clone")

\* What the chained calls do: the shared operations return the embedded
\* *BaseBuilder of the *UserBuilder; Build on it returns nil, Reset on it
\* resets the tags, the flag and the errors and leaves the user under
\* construction as it is, and Clone on it returns a *BaseBuilder with the
\* tags, the flag and the errors.
C24_ChainedCallsActOnTheEmbeddedBase ==
    ~Cloned =>
        \A s1 \in AfterSharedOperation(Entry) :
            LET reset == Returned_Reset(s1, s1.ret)
                clone == Returned_Clone(s1, s1.ret, "clone")
            IN  /\ s1.ret = BaseBuilderRef(st.ub["orig"].base)
                /\ Returned_Build(s1, s1.ret).ret = NilValue
                /\ BuilderValue(reset, "orig").user = BuilderValue(s1, "orig").user
                /\ BuilderValue(reset, "orig").tags = EmptyMap
                /\ BuilderValue(reset, "orig").validationEnabled
                /\ BuilderValue(reset, "orig").errors = <<>>
                /\ "clone" \in DOMAIN clone.bb
                /\ HeldValue(clone, "clone")[1].tags = BuilderValue(s1, "orig").tags
                /\ HeldValue(clone, "clone")[1].errors = BuilderValue(s1, "orig").errors

\* Build chained after WithTag has returned nil for a builder whose own Build
\* returns a user.
C24_ChainedBuildReturnsNil ==
    /\ done = Done("Build", "BaseBuilder", FALSE)
    /\ st.ret = NilValue
    /\ BuilderValue(st, "orig").tags = [env |-> "test"]
    /\ BuildKind(st, "orig") = "TestUser"
    /\ BuiltUser(st, "orig").Name = "Alice"

\* Reset chained after a shared operation has left the name and the email of
\* the user under construction.
C24_ChainedResetKeepsEntity ==
    /\ done = Done("Reset", "BaseBuilder", FALSE)
    /\ BuilderValue(st, "orig").user.Name = "Alice"
    /\ BuilderValue(st, "orig").tags = EmptyMap

---------------------------------------------------------------------------
(* Recorded errors and the calls that follow (specification Spec).          *)

\* errs is the beginning of the list all.
IsPrefix(errs, all) == Len(errs) <= Len(all) /\ SubSeq(all, 1, Len(errs)) = errs

\* The states one call on the builder held by r, other than ClearErrors and
\* Reset, can end in: every setter with every value, WithValidation, AddError
\* and Build.
AfterOtherCall(s, r) ==
    {UserBuilder_WithID(s, r, id) : id \in IDs}
        \cup {UserBuilder_WithName(s, r, n) : n \in Names}
        \cup {UserBuilder_WithEmail(s, r, e) : e \in Emails}
        \cup {UserBuilder_WithAge(s, r, a) : a \in Ages}
        \cup {UserBuilder_WithActive(s, r, a) : a \in BOOLEAN}
        \cup {UserBuilder_WithUserTag(s, r, "role", "admin"),
              UserBuilder_WithMetadata(s, r, "dept", Str("eng")),
              BaseBuilder_WithTag(s, s.ub[r].base, "env", "test")}
        \cup {BaseBuilder_WithValidation(s, s.ub[r].base, e) : e \in BOOLEAN}
        \cup {BaseBuilder_AddError(s, s.ub[r].base, e) : e \in {NilError, CustomError}}
        \cup {UserBuilder_Build(s, r)}

\* The required-field check of Build passes for the builder value.
RequiredFieldsPass(value) ==
    ~value.validationEnabled \/ (value.user.Name # "" /\ value.user.Email # "")

\* C25: while the error list of a builder is not empty, Build returns an
\* error, and no call other than ClearErrors and Reset takes an error out of
\* the list: after any setter with any value, WithValidation, AddError or
\* Build the list begins with the errors it had, and Build still returns an
\* error.  ClearErrors empties the list and leaves the fields, the tags and
\* the flag, and Reset empties it too; Build then returns a user exactly
\* when the required-field check passes.
C25_RecordedErrorsAreSticky ==
    /\ HasErrors(st, "orig") =>
          /\ BuildKind(st, "orig") = "error"
          /\ \A s2 \in AfterOtherCall(Entry, "orig") :
                /\ IsPrefix(Errors(st, "orig"), Errors(s2, "orig"))
                /\ BuildKind(Collect(s2), "orig") = "error"
    /\ LET s2 == Collect(BaseBuilder_ClearErrors(Entry, st.ub["orig"].base))
           old == BuilderValue(st, "orig")
           new == BuilderValue(s2, "orig")
       IN  /\ new = [old EXCEPT !.errors = <<>>]
           /\ BuildKind(s2, "orig") = "TestUser" <=> RequiredFieldsPass(new)
    /\ LET s2 == Collect(UserBuilder_Reset(Entry, "orig"))
           s3 == UserBuilder_WithEmail(UserBuilder_WithName(s2, "orig", "Alice"),
                                       "orig", "alice@x.com")
       IN  /\ Errors(s2, "orig") = <<>>
           /\ BuildKind(s2, "orig") = "TestUser"
                 <=> RequiredFieldsPass(BuilderValue(s2, "orig"))
           /\ BuildKind(Collect(s3), "orig") = "TestUser"

\* A name was rejected; the setter was called again with a valid name, an
\* email was set and validation disabled: Build has just returned the error.
C25_Witness ==
    /\ rejected = "pending"
    /\ Errors(st, "orig") = <<ErrNameEmpty>>
    /\ BuilderValue(st, "orig").user.Name = "Alice"
    /\ BuilderValue(st, "orig").user.Email = "alice@x.com"
    /\ ~IsValidationEnabled(st, "orig")
    /\ st.ret = ErrorValue(BuildErrorText(<<ErrNameEmpty>>))

---------------------------------------------------------------------------
(* SpecOrder: a configuration with default values that the setters reject   *)
(* under validation, applied to a *UserBuilder whose own flag is on or off. *)

OrderInputs ==
    {<<"id", IntVal(-1)>>, <<"name", Str("")>>, <<"name", Str("Config Name")>>,
     <<"email", Str("")>>, <<"age", IntVal(-1)>>, <<"age", IntVal(25)>>}

InitOrder ==
    /\ st = Collect(Return(NewBuilderConfig(NewUserBuilder(NewState, "orig"), "config"),
                           NoRet))
    /\ last = NoneSet
    /\ rejected = "never"
    /\ done = NoCall

OrderConfigValidation ==
    \E e \in BOOLEAN :
        /\ SettingUp
        /\ Call(BuilderConfig_WithValidation(Entry, "config", e))
        /\ UNCHANGED <<last, rejected, done>>
OrderWithDefault ==
    \E kv \in OrderInputs :
        /\ SettingUp
        /\ Call(BuilderConfig_WithDefault(Entry, "config", kv[1], kv[2]))
        /\ UNCHANGED <<last, rejected, done>>
OrderBuilderValidation ==
    \E e \in BOOLEAN :
        /\ SettingUp
        /\ WithValidation("orig", e)
        /\ UNCHANGED <<last, rejected, done>>
OrderApplyTo ==
    /\ Call(BuilderConfig_ApplyTo(Entry, "config", "orig"))
    /\ done' = Done("ApplyTo", "orig", IsValidationEnabled(st, "orig"))
    /\ UNCHANGED <<last, rejected>>
OrderApplyConfig ==
    /\ Call(UserBuilder_ApplyConfig(Entry, "orig", "config"))
    /\ done' = Done("ApplyConfig", "orig", IsValidationEnabled(st, "orig"))
    /\ UNCHANGED <<last, rejected>>
OrderBuild ==
    /\ ~SettingUp
    /\ Build("orig")
    /\ UNCHANGED <<last, rejected, done>>

NextOrder ==
    \/ OrderConfigValidation \/ OrderWithDefault \/ OrderBuilderValidation
    \/ OrderApplyTo \/ OrderApplyConfig \/ OrderBuild

SpecOrder == InitOrder /\ [][NextOrder]_vars

\* The value the configuration has for the default k, of the field's type.
TypedDefault(dv, k) ==
    CASE FieldType(k) = "int" -> <<IntOf(dv, k)>>
      [] FieldType(k) = "str" -> <<StrOf(dv, k)>>
      [] OTHER -> <<BoolOf(dv, k)>>

\* The default k has the field's type and a value the setter rejects under
\* validation: a negative id or age, an empty name or email.
InvalidDefault(dv, k) ==
    /\ TypeAssert(dv, k, FieldType(k))
    /\ CASE FieldType(k) = "int" -> IntOf(dv, k) < 0
         [] FieldType(k) = "str" -> StrOf(dv, k) = ""
         [] OTHER -> FALSE

\* The errors of the setters for the invalid defaults, in the order in which
\* ApplyConfig calls the setters.
RejectionErrors(dv) ==
    (IF InvalidDefault(dv, "id") THEN <<ErrIDNegative>> ELSE <<>>)
        \o (IF InvalidDefault(dv, "name") THEN <<ErrNameEmpty>> ELSE <<>>)
        \o (IF InvalidDefault(dv, "email") THEN <<ErrEmailEmpty>> ELSE <<>>)
        \o (IF InvalidDefault(dv, "age") THEN <<ErrAgeNegative>> ELSE <<>>)

\* State s with the configuration's flag set to e, the builder's flag set to
\* b, and a rejected default for each of id, name, email and age.
WithAllInvalid(s, e, b) ==
    LET s1 == BuilderConfig_WithDefault(s, "config", "id", IntVal(-1))
        s2 == BuilderConfig_WithDefault(s1, "config", "name", Str(""))
        s3 == BuilderConfig_WithDefault(s2, "config", "email", Str(""))
        s4 == BuilderConfig_WithDefault(s3, "config", "age", IntVal(-1))
        s5 == BuilderConfig_WithValidation(s4, "config", e)
    IN  Return(BaseBuilder_WithValidation(s5, s.ub["orig"].base, b), NoRet)

\* s2 is what applying the configuration to the builder makes of state s.
AppliedInOrder(s, s2) ==
    LET cfg == ConfigValue(s, "config")
        dv == cfg.DefaultValues
        old == BuilderValue(s, "orig")
        new == BuilderValue(s2, "orig")
    IN  /\ s2.ret = NilValue
        /\ new.validationEnabled = cfg.ValidationEnabled
        /\ ~cfg.ValidationEnabled =>
              /\ new.errors = old.errors
              /\ \A k \in DefaultKeys :
                    TypeAssert(dv, k, FieldType(k)) => FieldOf(new, k) = TypedDefault(dv, k)
        /\ cfg.ValidationEnabled =>
              /\ new.errors = old.errors \o RejectionErrors(dv)
              /\ \A k \in DefaultKeys :
                    /\ InvalidDefault(dv, k) => FieldOf(new, k) = FieldOf(old, k)
                    /\ TypeAssert(dv, k, FieldType(k)) /\ ~InvalidDefault(dv, k)
                          => FieldOf(new, k) = TypedDefault(dv, k)
              /\ RejectionErrors(dv) # <<>> =>
                    /\ BuildKind(s2, "orig") = "error"
                    /\ BuildText(s2, "orig") = BuildErrorText(new.errors)

\* C26: ApplyTo and ApplyConfig set the builder's flag to the
\* configuration's before they write the defaults, whatever the builder's
\* flag was: with the flag off every default of the field's type is written,
\* a negative id or age and an empty name or email too, and no error is
\* recorded; with the flag on an invalid default is not written and the
\* errors of the invalid defaults are appended in the order id, name, email,
\* age; both return nil, and Build then returns the error.  This holds for
\* the configuration and the builder of every reachable state, and for a
\* configuration with all four defaults invalid under every pair of flags.
C26_FlagTakesEffectBeforeDefaults ==
    \A s \in {Entry} \cup {WithAllInvalid(Entry, e, b) : e \in BOOLEAN, b \in BOOLEAN} :
        /\ AppliedInOrder(s, Collect(BuilderConfig_ApplyTo(s, "config", "orig")))
        /\ AppliedInOrder(s, Collect(UserBuilder_ApplyConfig(s, "orig", "config")))

\* A configuration with validation on and a negative id and an empty name
\* was applied to a builder that had validation disabled: ApplyTo returned
\* nil, the two errors are recorded in that order and the fields are as they
\* were; Build has returned the error.
C26_Witness ==
    /\ done = Done("ApplyTo", "orig", FALSE)
    /\ ConfigValue(st, "config").ValidationEnabled
    /\ ConfigValue(st, "config").DefaultValues = [id |-> IntVal(-1), name |-> Str("")]
    /\ BuilderValue(st, "orig").errors = <<ErrIDNegative, ErrNameEmpty>>
    /\ BuilderValue(st, "orig").user.ID = 0
    /\ st.ret = ErrorValue(BuildErrorText(<<ErrIDNegative, ErrNameEmpty>>))

\* A configuration with validation off and a negative age and an empty email
\* was applied to a builder that had validation enabled: both are written
\* and no error is recorded.
C26_WrittenUnvalidated ==
    /\ done = Done("ApplyConfig", "orig", TRUE)
    /\ ~ConfigValue(st, "config").ValidationEnabled
    /\ BuilderValue(st, "orig").user.Age = -1
    /\ "email" \in DOMAIN ConfigValue(st, "config").DefaultValues
    /\ BuilderValue(st, "orig").user.Email = ""
    /\ BuilderValue(st, "orig").errors = <<>>

---------------------------------------------------------------------------
(* SpecTags: one builder whose builder tags and user tags are set with the  *)
(* same keys, a configuration with tags, and Build.                         *)

TagKeys == {"env", "team"}
TagValues == {"test", "prod"}

InitTags ==
    /\ st = Collect(Return(NewBuilderConfig(NewUserBuilder(NewState, "orig"), "config"), NoRet))
    /\ last = NoneSet
    /\ rejected = "never"
    /\ done = NoCall

TagsWithTag ==
    \E k \in TagKeys, v \in TagValues :
        WithTag("orig", k, v) /\ UNCHANGED <<last, rejected, done>>
TagsWithUserTag ==
    \E k \in TagKeys, v \in TagValues :
        WithUserTag("orig", k, v) /\ UNCHANGED <<last, rejected, done>>
TagsWithName == WithName("orig", "Alice") /\ UNCHANGED <<last, rejected, done>>
TagsWithEmail == WithEmail("orig", "alice@x.com") /\ UNCHANGED <<last, rejected, done>>
TagsConfigWithTag ==
    \E v \in TagValues :
        /\ Call(BuilderConfig_WithTag(Entry, "config", "team", v))
        /\ UNCHANGED <<last, rejected, done>>
TagsApplyTo ==
    /\ Call(BuilderConfig_ApplyTo(Entry, "config", "orig"))
    /\ UNCHANGED <<last, rejected, done>>
TagsBuild == Build("orig") /\ UNCHANGED <<last, rejected, done>>

NextTags ==
    \/ TagsWithTag \/ TagsWithUserTag \/ TagsWithName \/ TagsWithEmail
    \/ TagsConfigWithTag \/ TagsApplyTo \/ TagsBuild

SpecTags == InitTags /\ [][NextTags]_vars

\* GetTag and HasTag of the builder held by r, as the caller calls them.
GetTag(s, r, key) == BaseBuilder_GetTag(s, s.ub[r].base, key)
HasTag(s, r, key) == BaseBuilder_HasTag(s, s.ub[r].base, key)

\* What GetTag and HasTag answer for every key.
TagAnswers(s, r) == [k \in TagKeys |-> <<GetTag(s, r, k), HasTag(s, r, k)>>]

\* The built user's Tags in state s are `tags`, when Build returns a user.
BuildsWithTags(s, r, tags) ==
    BuildKind(s, r) = "TestUser" => BuiltUser(s, r).Tags = tags

\* C27: the builder tags and the user tags are two maps.  GetTag and HasTag
\* answer from the builder tags alone, and a built user's Tags are the user
\* tags alone.  WithTag, and a configuration's tags applied by ApplyTo, set
\* the builder tags and leave the user tags, the scalar fields, the flag
\* and the errors as they were (ApplyTo: the user tags); WithUserTag
\* sets the user tags and leaves the builder tags, the answers of GetTag and
\* HasTag, the scalar fields, the flag and the errors as they were.
C27_BuilderTagsAndUserTagsAreSeparate ==
    LET old == BuilderValue(Entry, "orig")
        cfg == ConfigValue(Entry, "config")
        applied == Collect(BuilderConfig_ApplyTo(Entry, "config", "orig"))
    IN  /\ \A k \in TagKeys :
              /\ HasTag(Entry, "orig", k) = (k \in DOMAIN old.tags)
              /\ GetTag(Entry, "orig", k) = IF k \in DOMAIN old.tags THEN old.tags[k] ELSE ""
        /\ BuildsWithTags(Entry, "orig", old.user.Tags)
        /\ st.ret.kind = "TestUser" => UserValue(st, st.ret.ref).Tags = old.user.Tags
        /\ BuilderValue(applied, "orig").user.Tags = old.user.Tags
        /\ \A k \in DOMAIN cfg.Tags :
              /\ GetTag(applied, "orig", k) = cfg.Tags[k]
              /\ BuildsWithTags(applied, "orig", old.user.Tags)
        /\ \A k \in TagKeys, v \in TagValues :
              LET s1 == Collect(BaseBuilder_WithTag(Entry, st.ub["orig"].base, k, v))
                  s2 == Collect(UserBuilder_WithUserTag(Entry, "orig", k, v))
              IN  /\ GetTag(s1, "orig", k) = v
                  /\ HasTag(s1, "orig", k)
                  /\ BuilderValue(s1, "orig") = [old EXCEPT !.tags = Put(@, k, v)]
                  /\ BuildKind(s1, "orig") = BuildKind(Entry, "orig")
                  /\ BuildsWithTags(s1, "orig", old.user.Tags)
                  /\ BuilderValue(s2, "orig") = [old EXCEPT !.user.Tags = Put(@, k, v)]
                  /\ TagAnswers(s2, "orig") = TagAnswers(Entry, "orig")
                  /\ BuildKind(s2, "orig") = BuildKind(Entry, "orig")
                  /\ BuildsWithTags(s2, "orig", Put(old.user.Tags, k, v))

\* The builder tag "env" is "test" and the user tag "env" is "prod"; the
\* builder tag "team" came from the configuration and the user has no
\* "team" tag; Build has returned a user whose Tags are the user tags.
C27_Witness ==
    /\ GetTag(st, "orig", "env") = "test"
    /\ GetTag(st, "orig", "team") = "prod"
    /\ ConfigValue(st, "config").Tags = [team |-> "prod"]
    /\ BuilderValue(st, "orig").user.Tags = [env |-> "prod"]
    /\ st.ret.kind = "TestUser"
    /\ UserValue(st, st.ret.ref).Tags = [env |-> "prod"]

---------------------------------------------------------------------------
(* ApplyTo and ApplyConfig compared, over SpecConfig.                       *)

\* State s with the builder's flag set to b, its tag "env" set to a value
\* no configuration has, and an error recorded.
Preconfigured(s, b) ==
    LET a == s.ub["orig"].base
        s1 == BaseBuilder_WithValidation(s, a, b)
        s2 == BaseBuilder_WithTag(s1, a, "env", "prod")
    IN  Return(BaseBuilder_AddError(s2, a, CustomError), NoRet)

\* What the caller can observe after a call: the value returned, the
\* builder and the configuration.
Outcome(s) ==
    [ret |-> RetValue(s), builder |-> BuilderValue(s, "orig"),
     config |-> ConfigValue(s, "config")]

\* C28: for the builder and the configuration of every reachable state, and
\* for that builder with either flag, a tag of its own and an error
\* recorded, config.ApplyTo(builder) and builder.ApplyConfig(config) return
\* the same value and leave the same flag, builder tags, error list and
\* entity; the whole heap is the same too.
C28_ApplyToEqualsApplyConfig ==
    \A s \in {Entry} \cup {Preconfigured(Entry, b) : b \in BOOLEAN} :
        LET viaConfig == Collect(BuilderConfig_ApplyTo(s, "config", "orig"))
            viaBuilder == Collect(UserBuilder_ApplyConfig(s, "orig", "config"))
        IN  /\ Outcome(viaConfig) = Outcome(viaBuilder)
            /\ viaConfig = viaBuilder
            /\ viaConfig.ret = NilValue

\* ApplyTo has been called on a builder that NewUserBuilder had not left
\* untouched, with a configuration that has validation on, a tag and an
\* invalid default: it returned nil, the tag is on the builder and the error
\* of the default is recorded.
C28_Witness ==
    /\ done.op = "ApplyTo"
    /\ done.on = "orig"
    /\ ~done.configured
    /\ st.ret = NilValue
    /\ ConfigValue(st, "config").ValidationEnabled
    /\ ConfigValue(st, "config").Tags = [env |-> "test"]
    /\ DOMAIN ConfigValue(st, "config").DefaultValues # {}
    /\ BuilderValue(st, "orig").tags = [env |-> "test"]
    /\ BuilderValue(st, "orig").validationEnabled
    /\ BuilderValue(st, "orig").errors # <<>>

====
